---- MODULE Spec2Model ----
(***************************************************************************)
(* A model of the editing engine of Zeus: the command stack                *)
(* (core/commands.py), the selection and application state                 *)
(* (core/state.py) and the canvas's component collection (ui/canvas.py).   *)
(*                                                                         *)
(* Program state is kept in the variables; every method of the program is  *)
(* an operator from a "world" record (the program state plus the           *)
(* exception flag and the return value of the call) to a world record,     *)
(* and every action applies one such operator to the current world.        *)
(***************************************************************************)
EXTENDS Integers, Sequences, FiniteSets, TLC

\* ------------------------------------------------------------------ bounds

\* CommandStack(max_size): the history cap (the program's default is 100).
max_size == 2

\* Command objects constructed in a run: one more than the cap, so that an
\* execute can exceed it.
MaxCommands == max_size + 1

\* The readings of the clock run from 0 to MaxTime.
MaxTime == 2

\* How many values uuid4() is asked for.
MaxUuids == 3

\* How many pages a document handed to the validator lists.
MaxPages == 2

\* How many callbacks are subscribed to one event.
MaxSubscriptions == 2

\* How many moves of the pointer one gesture has.
MaxMoves == 2

\* How many times the left button is pressed on a wrapper.
MaxGestures == 2

\* The wrappers among the canvas's children that _components no longer
\* holds (left by add_component of an id that is already there, or popped
\* by remove_component and not yet destroyed) are at most this many.
MaxOrphans == 2

\* The coordinates handed to snap_to_grid run from -MaxCoordinate to
\* MaxCoordinate.
MaxCoordinate == 76

\* ------------------------------------------------- components and inputs

\* The ids of the component objects (uuid4 strings in the program).
Ids == {"c1", "c2"}

\* ButtonComponent.default_width / default_height.
default_width == 120

default_height == 40

\* The position the components are created at, and the position the
\* Move commands move to.
InitialPosition == <<10, 10>>

NewPositions == {<<50, 60>>}

NewSizes == {<<200, 80>>}

\* The declared properties of a Button that the model tracks, with their
\* declared defaults, and the values the ChangeProperty commands set.
DefaultProperties == [text |-> "Button", variant |-> "primary"]

PropertyNames == DOMAIN DefaultProperties

NewValues == [text |-> {"Submit"}, variant |-> {}]

\* The variant names of COMPONENT_REGISTRY that the model tracks, and the
\* names a caller passes to create_component.
COMPONENT_REGISTRY == {"button"}

ComponentTypes == {"button", "slider"}

\* None, where a component is expected.
NotCreated == [none |-> TRUE]

\* None, where a property value is expected.
NoValue == "None"

\* None, where the id of a parent is expected.
NoParent == ""

\* BaseComponent.__init__ of a Button, with `id` the value of uuid4(): no
\* parent, no children, and every declared property at its default.
BaseComponent(id, x, y, width, height) ==
  [id |-> id, x |-> x, y |-> y, width |-> width, height |-> height,
   parent_id |-> NoParent, children |-> <<>>,
   properties |-> DefaultProperties]

\* create_component(component_type, x, y): None for a name that is not in
\* the registry, else the component class called with its default size.
create_component(component_type, x, y, id) ==
  IF component_type \notin COMPONENT_REGISTRY
    THEN NotCreated
    ELSE BaseComponent(id, x, y, default_width, default_height)

\* data.get(key, default) on a dict.
Get(data, key, default) == IF key \in DOMAIN data THEN data[key] ELSE default

\* a.update(b) on dicts.
Update(a, b) ==
  [k \in DOMAIN a \cup DOMAIN b |-> IF k \in DOMAIN b THEN b[k] ELSE a[k]]

\* BaseComponent.to_dict of a Button.
component_to_dict(component) ==
  [id |-> component.id, type |-> "button", x |-> component.x,
   y |-> component.y, width |-> component.width,
   height |-> component.height, parent_id |-> component.parent_id,
   children |-> component.children, properties |-> component.properties]

\* A from_dict that keeps only the properties the class declares.
ComponentFromDictDeclaredOnly(data, id) ==
  LET component == BaseComponent(id, Get(data, "x", 0), Get(data, "y", 0),
                                 Get(data, "width", 100), Get(data, "height", 50))
      given == Get(data, "properties", <<>>)
  IN [component EXCEPT
        !.id = Get(data, "id", component.id),
        !.parent_id = Get(data, "parent_id", NoParent),
        !.children = Get(data, "children", <<>>),
        !.properties =
          [k \in DOMAIN @ |-> IF k \in DOMAIN given THEN given[k] ELSE @[k]]]

\* ButtonComponent.from_dict, with `id` the value of uuid4() in __init__.
component_from_dict(data, id) ==
  LET component == BaseComponent(id, Get(data, "x", 0), Get(data, "y", 0),
                                 Get(data, "width", 100), Get(data, "height", 50))
  IN [component EXCEPT
        !.id = Get(data, "id", component.id),
        !.parent_id = Get(data, "parent_id", NoParent),
        !.children = Get(data, "children", <<>>),
        !.properties = Update(@, Get(data, "properties", <<>>))]

\* BaseComponent.set_property: "self._properties[name] = value", for any
\* name.
set_property(component, name, value) ==
  [component EXCEPT !.properties =
     [k \in DOMAIN @ \cup {name} |-> IF k = name THEN value ELSE @[k]]]

\* BaseComponent.get_property: "self._properties.get(name)".
get_property(component, name) ==
  IF name \in DOMAIN component.properties
    THEN component.properties[name]
    ELSE NoValue

\* None, where a handle index is expected.
NoHandle == -1

\* None, where a point or a size is expected.
NoPoint == <<>>

\* ComponentWrapper.__init__: a wrapper starts unselected, outside any
\* gesture, and _update_geometry gives it the geometry of the component.
ComponentWrapper(component) ==
  [is_selected |-> FALSE, resize_handle |-> NoHandle, drag_start |-> NoPoint,
   original_pos |-> NoPoint, original_size |-> NoPoint,
   x |-> component.x, y |-> component.y, width |-> component.width,
   height |-> component.height]

\* --------------------------------------------------------------- commands

\* A Command object.  `id` is the identity of the object; `kind` is its
\* class.  The fields a class does not declare are left at their NoCommand
\* value.  A "Nested" command is a Command subclass whose execute() calls
\* CommandStack.execute on another command (inner_id, inner_kind and the
\* remaining fields are that command); a "Failing" command is a Command
\* subclass whose execute() raises.  A "FailingUndo" command is a Command
\* subclass whose execute() does nothing and whose undo() raises; a
\* "FailingRedo" command is one whose execute() and undo() do nothing and
\* whose redo() raises.
NoCommand ==
  [id |-> 0, kind |-> "None", component |-> "",
   old_x |-> 0, old_y |-> 0, new_x |-> 0, new_y |-> 0,
   old_width |-> 0, old_height |-> 0, new_width |-> 0, new_height |-> 0,
   property_name |-> "", old_value |-> "", new_value |-> "",
   inner_id |-> 0, inner_kind |-> "None"]

AddComponentCommand(id, c) ==
  [NoCommand EXCEPT !.id = id, !.kind = "Add", !.component = c]

RemoveComponentCommand(id, c) ==
  [NoCommand EXCEPT !.id = id, !.kind = "Remove", !.component = c]

MoveComponentCommand(id, c, old_x, old_y, new_x, new_y) ==
  [NoCommand EXCEPT !.id = id, !.kind = "Move", !.component = c,
                    !.old_x = old_x, !.old_y = old_y,
                    !.new_x = new_x, !.new_y = new_y]

ResizeComponentCommand(id, c, old_width, old_height, new_width, new_height) ==
  [NoCommand EXCEPT !.id = id, !.kind = "Resize", !.component = c,
                    !.old_width = old_width, !.old_height = old_height,
                    !.new_width = new_width, !.new_height = new_height]

ChangePropertyCommand(id, c, property_name, old_value, new_value) ==
  [NoCommand EXCEPT !.id = id, !.kind = "ChangeProperty", !.component = c,
                    !.property_name = property_name,
                    !.old_value = old_value, !.new_value = new_value]

NestedCommand(id, inner) ==
  [inner EXCEPT !.id = id, !.kind = "Nested",
                !.inner_id = inner.id, !.inner_kind = inner.kind]

FailingCommand(id) ==
  [NoCommand EXCEPT !.id = id, !.kind = "Failing"]

FailingUndoCommand(id) ==
  [NoCommand EXCEPT !.id = id, !.kind = "FailingUndo"]

FailingRedoCommand(id) ==
  [NoCommand EXCEPT !.id = id, !.kind = "FailingRedo"]

\* The command a Nested command hands to CommandStack.execute.
InnerCommand(command) ==
  [command EXCEPT !.id = command.inner_id, !.kind = command.inner_kind,
                  !.inner_id = 0, !.inner_kind = "None"]

\* ------------------------------------------------------------------ state

VARIABLES
  heap,          \* the component objects: id -> x, y, width, height, properties
  components,    \* CanvasArea._components: id -> its ComponentWrapper
  selected_ids,  \* AppState.selection.selected_ids
  undo_stack,    \* CommandStack._undo_stack
  redo_stack,    \* CommandStack._redo_stack
  is_executing,  \* CommandStack._is_executing
  next_id,       \* the identity the next constructed Command object gets
  last,          \* the last call: name, argument, return value, exception, and
                 \* the length of the redo stack before it
  law,           \* the run of executes, undos and redos in progress
  mark,          \* the stacks as they were before the last undo
  project,       \* AppState._project (NoProject stands for None)
  current_page_id, \* AppState._current_page_id (NoPage stands for None)
  now,           \* the reading of datetime.now()
  next_uuid,     \* the number of the next uuid4() value
  document,      \* the document the last Project.load read
  grid,          \* AppState._grid_size and AppState._grid_snap
  listeners,     \* AppState._listeners: event -> the callbacks subscribed
  notified,      \* the _notify calls of the last call: <<event, data>>
  delivered,     \* the callbacks the last call invoked:
                 \* <<callback, event, data>>
  pointer        \* the pointer on the canvas: whether the left button is
                 \* down, and for the last gesture the wrapper that took
                 \* the press, the press point, the component's position
                 \* then, the point of the last move, the number of moves
                 \* and the number of presses so far
VARIABLES
  rubber_band,   \* CanvasArea._rubber_band (whether the QRubberBand exists,
                 \* and its geometry) and CanvasArea._rubber_band_origin
  tree,              \* the page ids of the items of ProjectExplorer.tree
  current_component, \* PropertiesPanel._current_component
  orphans            \* the wrappers among the canvas's children that
                     \* _components no longer holds, oldest first, each
                     \* with whether deleteLater() was called on it

\* The variables of the project and its environment.
docvars == <<project, current_page_id, now, next_uuid, document, tree>>

vars ==
  <<heap, components, selected_ids, undo_stack, redo_stack, is_executing,
    next_id, last, law, mark, project, current_page_id, now, next_uuid,
    document, grid, listeners, notified, delivered, pointer, rubber_band,
    current_component, orphans, tree>>

\* The program state as one record, with the outcome of the call in
\* progress: `raised` (an exception is propagating) and `ret` (the value
\* returned; NoCommand stands for None).
World ==
  [heap |-> heap, components |-> components, selected_ids |-> selected_ids,
   undo_stack |-> undo_stack, redo_stack |-> redo_stack,
   is_executing |-> is_executing, raised |-> FALSE, ret |-> NoCommand,
   grid |-> grid, listeners |-> listeners, notified |-> <<>>,
   delivered |-> <<>>, pointer |-> pointer, rubber_band |-> rubber_band,
   current_component |-> current_component, orphans |-> orphans]

\* The variables of the program state take the fields of w.
SetWorld(w) ==
  /\ heap' = w.heap
  /\ components' = w.components
  /\ selected_ids' = w.selected_ids
  /\ undo_stack' = w.undo_stack
  /\ redo_stack' = w.redo_stack
  /\ is_executing' = w.is_executing
  /\ grid' = w.grid
  /\ listeners' = w.listeners
  /\ notified' = w.notified
  /\ delivered' = w.delivered
  /\ pointer' = w.pointer
  /\ rubber_band' = w.rubber_band
  /\ current_component' = w.current_component
  /\ orphans' = w.orphans

\* ---------------------------------------------------------- the canvas

\* The widget that took the press has been deleted, where the pointer
\* names it.
Deleted == "deleted"

\* The wrapper that took the last press is the one that _components holds
\* under the id c.
PressedOn(w, c) == w.pointer.component = c /\ w.pointer.orphan = 0

\* CanvasArea.add_component: a new wrapper is made a child of the canvas
\* and stored under the component's id.  A wrapper that was stored under
\* the id stays a child of the canvas, shown and connected, and keeps the
\* press it holds.
add_component(w, c) ==
  LET left == IF c \in DOMAIN w.components
                THEN Append(w.orphans,
                            [component |-> c, wrapper |-> w.components[c],
                             deleteLater |-> FALSE])
                ELSE w.orphans
  IN [w EXCEPT !.components =
                 [k \in (DOMAIN w.components) \cup {c} |->
                    IF k = c THEN ComponentWrapper(w.heap[c])
                             ELSE w.components[k]],
               !.orphans = left,
               !.pointer.orphan =
                 IF c \in DOMAIN w.components /\ PressedOn(w, c)
                   THEN Len(left) ELSE @]

\* CanvasArea.remove_component: the wrapper is popped if the id is present
\* and deleteLater() is called on it.  Until the event loop destroys it the
\* wrapper stays a child of the canvas, shown and connected, and keeps the
\* press it holds.
remove_component(w, component_id) ==
  IF component_id \in DOMAIN w.components
    THEN [w EXCEPT !.components =
                     [k \in (DOMAIN w.components) \ {component_id} |->
                        w.components[k]],
                   !.orphans =
                     Append(@, [component |-> component_id,
                                wrapper |-> w.components[component_id],
                                deleteLater |-> TRUE]),
                   !.pointer.orphan =
                     IF PressedOn(w, component_id)
                       THEN Len(w.orphans) + 1 ELSE @]
    ELSE w

\* The event loop delivers the DeferredDelete events that deleteLater()
\* posted: the wrappers are destroyed, and a press one of them holds has no
\* widget any more.
deferred_delete(w) ==
  LET at == w.pointer.orphan
      gone == at > 0 /\ w.orphans[at].deleteLater
  IN [w EXCEPT !.orphans = SelectSeq(@, LAMBDA o : ~o.deleteLater),
               !.pointer.component = IF gone THEN Deleted ELSE @,
               !.pointer.orphan =
                 IF gone THEN 0
                 ELSE Cardinality({i \in 1..at : ~w.orphans[i].deleteLater})]

\* ------------------------------------------------------ the command stack

\* Sequence helpers: list.pop() leaves Front(s), list[-1] is Last(s).
Front(s) == SubSeq(s, 1, Len(s) - 1)

Last(s) == s[Len(s)]

\* LimitStackSize with pop() in place of pop(0): the newest entries go.
RECURSIVE LimitStackSizePopsNewest(_)
LimitStackSizePopsNewest(stack) ==
  IF Len(stack) > max_size THEN LimitStackSizePopsNewest(Front(stack)) ELSE stack

\* "while len(self._undo_stack) > self._max_size: self._undo_stack.pop(0)"
RECURSIVE LimitStackSize(_)
LimitStackSize(stack) ==
  IF Len(stack) > max_size THEN LimitStackSize(Tail(stack)) ELSE stack

RECURSIVE CommandExecute(_, _)
RECURSIVE StackExecute(_, _)

\* Command.execute of each command class, applied to the world.
CommandExecute(w, command) ==
  LET c == command.component IN
  CASE command.kind = "Add" -> add_component(w, c)
    [] command.kind = "Remove" -> remove_component(w, c)
    [] command.kind = "Move" ->
         [w EXCEPT !.heap[c].x = command.new_x, !.heap[c].y = command.new_y]
    [] command.kind = "Resize" ->
         [w EXCEPT !.heap[c].width = command.new_width,
                   !.heap[c].height = command.new_height]
    [] command.kind = "ChangeProperty" ->
         [w EXCEPT !.heap[c] =
            set_property(@, command.property_name, command.new_value)]
    [] command.kind = "Nested" -> StackExecute(w, InnerCommand(command))
    [] command.kind = "Failing" -> [w EXCEPT !.raised = TRUE]
    [] OTHER -> w

\* StackExecute without "self._redo_stack.clear()".
StackExecuteKeepsRedo(w, command) ==
  IF w.is_executing
    THEN w
    ELSE LET w1 == [w EXCEPT !.is_executing = TRUE]
             w2 == CommandExecute(w1, command)
             w3 == IF w2.raised
                     THEN w2
                     ELSE [w2 EXCEPT
                             !.undo_stack = LimitStackSize(Append(@, command))]
         IN [w3 EXCEPT !.is_executing = FALSE]

\* StackExecute without the "if self._is_executing: return" guard.
StackExecuteNoGuard(w, command) ==
  LET w1 == [w EXCEPT !.is_executing = TRUE]
      w2 == CommandExecute(w1, command)
      w3 == IF w2.raised
              THEN w2
              ELSE [w2 EXCEPT
                      !.undo_stack = LimitStackSize(Append(@, command)),
                      !.redo_stack = <<>>]
  IN [w3 EXCEPT !.is_executing = FALSE]

\* StackExecute without try/finally: an exception leaves the flag set.
StackExecuteNoFinally(w, command) ==
  IF w.is_executing
    THEN w
    ELSE LET w1 == [w EXCEPT !.is_executing = TRUE]
             w2 == CommandExecute(w1, command)
         IN IF w2.raised
              THEN w2
              ELSE [w2 EXCEPT
                      !.undo_stack = LimitStackSize(Append(@, command)),
                      !.redo_stack = <<>>,
                      !.is_executing = FALSE]

\* CommandStack.execute.  The finally clause resets the guard flag whether
\* or not command.execute() raised; an exception skips the lines after it.
StackExecute(w, command) ==
  IF w.is_executing
    THEN w
    ELSE LET w1 == [w EXCEPT !.is_executing = TRUE]
             w2 == CommandExecute(w1, command)
             w3 == IF w2.raised
                     THEN w2
                     ELSE [w2 EXCEPT
                             !.undo_stack = LimitStackSize(Append(@, command)),
                             !.redo_stack = <<>>]
         IN [w3 EXCEPT !.is_executing = FALSE]

\* CommandUndo with a Move restoring the component as it was created at
\* the old position, in place of x and y alone.
CommandUndoRestoresComponent(w, command) ==
  LET c == command.component IN
  CASE command.kind = "Add" -> remove_component(w, c)
    [] command.kind = "Remove" -> add_component(w, c)
    [] command.kind = "Move" ->
         [w EXCEPT !.heap[c] =
            create_component("button", command.old_x, command.old_y, c)]
    [] command.kind = "Resize" ->
         [w EXCEPT !.heap[c].width = command.old_width,
                   !.heap[c].height = command.old_height]
    [] command.kind = "ChangeProperty" ->
         [w EXCEPT !.heap[c] =
            set_property(@, command.property_name, command.old_value)]
    [] OTHER -> w

\* Command.undo of each command class.  The Nested and Failing classes
\* reverse nothing.
CommandUndo(w, command) ==
  LET c == command.component IN
  CASE command.kind = "Add" -> remove_component(w, c)
    [] command.kind = "FailingUndo" -> [w EXCEPT !.raised = TRUE]
    [] command.kind = "Remove" -> add_component(w, c)
    [] command.kind = "Move" ->
         [w EXCEPT !.heap[c].x = command.old_x, !.heap[c].y = command.old_y]
    [] command.kind = "Resize" ->
         [w EXCEPT !.heap[c].width = command.old_width,
                   !.heap[c].height = command.old_height]
    [] command.kind = "ChangeProperty" ->
         [w EXCEPT !.heap[c] =
            set_property(@, command.property_name, command.old_value)]
    [] OTHER -> w

\* Command.redo: "By default, just execute again."
CommandRedo(w, command) ==
  IF command.kind = "FailingRedo"
    THEN [w EXCEPT !.raised = TRUE]
    ELSE CommandExecute(w, command)

\* StackUndo with pop(0) in place of pop(): the oldest entry is undone.
StackUndoPopsOldest(w) ==
  IF w.undo_stack = <<>>
    THEN [w EXCEPT !.ret = NoCommand]
    ELSE LET command == Head(w.undo_stack)
             w1 == [w EXCEPT !.undo_stack = Tail(@)]
             w2 == CommandUndo(w1, command)
         IN IF w2.raised
              THEN w2
              ELSE [w2 EXCEPT !.redo_stack = Append(@, command),
                              !.ret = command]

\* StackUndo without "if not self._undo_stack: return None": pop() on the
\* empty list raises IndexError.
StackUndoUnguarded(w) ==
  IF w.undo_stack = <<>>
    THEN [w EXCEPT !.raised = TRUE]
    ELSE LET command == Last(w.undo_stack)
             w1 == [w EXCEPT !.undo_stack = Front(@)]
             w2 == CommandUndo(w1, command)
         IN IF w2.raised
              THEN w2
              ELSE [w2 EXCEPT !.redo_stack = Append(@, command),
                              !.ret = command]

\* CommandStack.undo.
StackUndo(w) ==
  IF w.undo_stack = <<>>
    THEN [w EXCEPT !.ret = NoCommand]
    ELSE LET command == Last(w.undo_stack)
             w1 == [w EXCEPT !.undo_stack = Front(@)]
             w2 == CommandUndo(w1, command)
         IN IF w2.raised
              THEN w2
              ELSE [w2 EXCEPT !.redo_stack = Append(@, command),
                              !.ret = command]

\* CommandStack.redo.
StackRedo(w) ==
  IF w.redo_stack = <<>>
    THEN [w EXCEPT !.ret = NoCommand]
    ELSE LET command == Last(w.redo_stack)
             w1 == [w EXCEPT !.redo_stack = Front(@)]
             w2 == CommandRedo(w1, command)
         IN IF w2.raised
              THEN w2
              ELSE [w2 EXCEPT !.undo_stack = Append(@, command),
                              !.ret = command]

\* CommandStack.clear.
StackClear(w) == [w EXCEPT !.undo_stack = <<>>, !.redo_stack = <<>>]

\* list.pop(i), with i counted from 1.
Pop(s, i) == [j \in 1..(Len(s) - 1) |-> IF j < i THEN s[j] ELSE s[j + 1]]

\* list.index(v), counted from 1, for a v that is in the list.
Index(s, v) ==
  CHOOSE i \in DOMAIN s : s[i] = v /\ \A j \in 1..(i - 1) : s[j] # v

\* ---------------------------------------------- notifications (AppState)

\* The events a caller subscribes to.
Events == {"selection_changed", "grid_size_changed"}

\* The callbacks a caller subscribes.  Each is a closure over the event it
\* is subscribed to; "a" only takes the data, "once" also unsubscribes
\* itself from its event.
Callbacks == {"a", "once"}

\* AppState.subscribe: the callback is appended to the list of the event,
\* which is created when the event has none.
subscribe(w, event, callback) ==
  [w EXCEPT !.listeners =
     [e \in DOMAIN w.listeners \cup {event} |->
        IF e = event
          THEN Append(IF e \in DOMAIN w.listeners THEN w.listeners[e] ELSE <<>>,
                      callback)
          ELSE w.listeners[e]]]

\* AppState.unsubscribe: list.remove takes the first occurrence out of the
\* list of the event, and raises ValueError when there is none.
unsubscribe(w, event, callback) ==
  IF event \notin DOMAIN w.listeners
    THEN w
    ELSE IF \E i \in DOMAIN w.listeners[event] : w.listeners[event][i] = callback
           THEN [w EXCEPT !.listeners[event] = Pop(@, Index(@, callback))]
           ELSE [w EXCEPT !.raised = TRUE]

\* None, where the panel's component is expected.
NoComponentSet == ""

\* PropertiesPanel.set_component, which is _set_component.
set_component(w, component) == [w EXCEPT !.current_component = component]

\* PropertiesPanel._on_selection_changed, the callback the panel subscribes
\* to "selection_changed": an empty selection takes the panel's component
\* away, any other selection is passed over.
on_selection_changed(w, selected) ==
  IF selected = <<>> THEN set_component(w, NoComponentSet) ELSE w

\* PropertiesPanel._on_property_changed: x, y, width and height are set
\* on the component as they come; any other name goes to set_property.
\* Without a component nothing is done.
on_property_changed(w, name, value) ==
  LET c == w.current_component IN
  IF c = NoComponentSet
    THEN w
    ELSE IF name \in {"x", "y", "width", "height"}
           THEN [w EXCEPT !.heap[c] = [@ EXCEPT ![name] = value]]
           ELSE [w EXCEPT !.heap[c] = set_property(@, name, value)]

\* PropertiesPanel._on_style_changed: set_property on the panel's
\* component, if it has one.
on_style_changed(w, name, value) ==
  LET c == w.current_component IN
  IF c = NoComponentSet
    THEN w
    ELSE [w EXCEPT !.heap[c] = set_property(@, name, value)]

\* callback(data), for a callback subscribed to `event`: "once" is a
\* callback that unsubscribes itself, "panel" is
\* PropertiesPanel._on_selection_changed.
Call(w, callback, event, data) ==
  LET w1 == [w EXCEPT !.delivered = Append(@, <<callback, event, data>>)]
  IN IF callback = "once"
       THEN unsubscribe(w1, event, callback)
       ELSE IF callback = "panel" THEN on_selection_changed(w1, data) ELSE w1

\* "for callback in self._listeners.get(event, []): callback(data)" from
\* the i-th element on: the loop reads the list itself at each step, and an
\* exception of a callback ends it.
RECURSIVE Dispatch(_, _, _, _)
Dispatch(w, event, data, i) ==
  IF w.raised \/ i > Len(w.listeners[event])
    THEN w
    ELSE Dispatch(Call(w, w.listeners[event][i], event, data), event, data,
                  i + 1)

\* AppState._notify.
notify(w, event, data) ==
  LET w1 == [w EXCEPT !.notified = Append(@, <<event, data>>)]
  IN IF event \in DOMAIN w1.listeners THEN Dispatch(w1, event, data, 1) ELSE w1

\* A grid_size setter that stores the value as it is given.
SetGridSizeUnclamped(w, value) ==
  notify([w EXCEPT !.grid.size = value], "grid_size_changed", value)

\* The AppState.grid_size setter.
set_grid_size(w, value) ==
  LET clamped == IF value < 5 THEN 5 ELSE IF value > 50 THEN 50 ELSE value
  IN notify([w EXCEPT !.grid.size = clamped], "grid_size_changed", clamped)

\* The AppState.grid_snap setter.
set_grid_snap(w, value) ==
  notify([w EXCEPT !.grid.snap = value], "grid_snap_changed", value)

\* ------------------------------------------------- selection (AppState)

\* A select that appends to the list instead of replacing it.
SelectAppends(w, component_id) ==
  [w EXCEPT !.selected_ids = Append(@, component_id)]

\* SelectionState.select.
select(w, component_id) == [w EXCEPT !.selected_ids = <<component_id>>]

\* An add_to_selection without the membership test.
AddToSelectionUnchecked(w, component_id) ==
  [w EXCEPT !.selected_ids = Append(@, component_id)]

\* SelectionState.add_to_selection.
add_to_selection(w, component_id) ==
  IF \E i \in 1..Len(w.selected_ids) : w.selected_ids[i] = component_id
    THEN w
    ELSE [w EXCEPT !.selected_ids = Append(@, component_id)]

\* AppState.select_component.
select_component(w, component_id, add) ==
  LET w1 == IF add THEN add_to_selection(w, component_id)
                   ELSE select(w, component_id)
  IN notify(w1, "selection_changed", w1.selected_ids)

\* AppState.clear_selection.
clear_selection(w) ==
  notify([w EXCEPT !.selected_ids = <<>>], "selection_changed", <<>>)

\* ComponentWrapper.set_selected on the wrapper stored under id k.
set_selected(w, k, selected) ==
  [w EXCEPT !.components[k].is_selected = selected]

\* CanvasArea._on_component_selected.  Without Shift every wrapper is set
\* selected exactly when it is the clicked one; with Shift the clicked
\* wrapper, if the canvas holds it, is toggled.
on_component_selected(w, component_id, shift) ==
  LET w1 ==
        IF ~shift
          THEN [w EXCEPT !.components =
                  [k \in DOMAIN w.components |->
                     [w.components[k] EXCEPT !.is_selected = (k = component_id)]]]
          ELSE IF component_id \in DOMAIN w.components
                 THEN set_selected(w, component_id,
                                   ~w.components[component_id].is_selected)
                 ELSE w
  IN select_component(w1, component_id, shift)

\* CanvasArea.clear_selection.
canvas_clear_selection(w) ==
  clear_selection(
    [w EXCEPT !.components =
       [k \in DOMAIN w.components |->
          [w.components[k] EXCEPT !.is_selected = FALSE]]])

\* "for component_id in selected: self.remove_component(component_id)"
RECURSIVE RemoveAll(_, _)
RemoveAll(w, selected) ==
  IF selected = <<>>
    THEN w
    ELSE RemoveAll(remove_component(w, Head(selected)), Tail(selected))

\* CanvasArea.delete_selected.
delete_selected(w) == clear_selection(RemoveAll(w, w.selected_ids))

\* SelectionState.remove_from_selection: list.remove drops the first
\* occurrence.
remove_from_selection(w, component_id) ==
  IF \E i \in DOMAIN w.selected_ids : w.selected_ids[i] = component_id
    THEN [w EXCEPT !.selected_ids = Pop(@, Index(@, component_id))]
    ELSE w

\* SelectionState.clear.
selection_clear(w) == [w EXCEPT !.selected_ids = <<>>]

\* The AppState.current_page_id setter: the selection is cleared and
\* "page_changed" is notified.
set_current_page_id(w, value) ==
  notify(selection_clear(w), "page_changed", value)

\* The AppState.project setter, as far as the world goes: "project_changed"
\* is notified.
set_project(w, value) == notify(w, "project_changed", value)

\* AppState._grid_size.
grid_size == 10

\* round(v / grid) * grid, as dropEvent computes it with grid snap on;
\* round() rounds a half to the even neighbour.  The coordinate of a
\* QPoint is a C int: below 2^31 the float v / grid is as far from a half
\* as the quotient is, and the result is what snap_to_grid gives.
SnapToGrid(v, size) ==
  LET q == v \div size
      r == v % size
  IN IF 2 * r < size THEN q * size
     ELSE IF 2 * r > size THEN (q + 1) * size
     ELSE IF q % 2 = 0 THEN q * size ELSE (q + 1) * size

\* Where the pointer drops a component.
DropPositions == {<<14, 25>>}

\* ------------------------------------------- the wrapper under the pointer

\* ComponentWrapper.HANDLE_SIZE.
HANDLE_SIZE == 8

\* max(a, b).
Max(a, b) == IF a > b THEN a ELSE b

\* ComponentWrapper._get_handle_rects: the left and top of the eight
\* squares of side HANDLE_SIZE, in the order of the handle indices 0..7.
get_handle_rects(wrapper) ==
  LET w == wrapper.width
      h == wrapper.height
      half == HANDLE_SIZE \div 2
  IN << <<-half, -half>>, <<w \div 2 - half, -half>>, <<w - half, -half>>,
        <<-half, h \div 2 - half>>, <<w - half, h \div 2 - half>>,
        <<-half, h - half>>, <<w \div 2 - half, h - half>>,
        <<w - half, h - half>> >>

\* QRect(left, top, s, s).adjusted(-2, -2, 2, 2).contains(pos): the right
\* and bottom edges of a QRect are left + width - 1 and top + height - 1.
Contains(rect, pos) ==
  /\ rect[1] - 2 <= pos[1] /\ pos[1] <= rect[1] + HANDLE_SIZE + 1
  /\ rect[2] - 2 <= pos[2] /\ pos[2] <= rect[2] + HANDLE_SIZE + 1

\* ComponentWrapper._get_handle_at: None for a wrapper that is not
\* selected, else the index of the first handle that holds the point.
get_handle_at(wrapper, pos) ==
  LET rects == get_handle_rects(wrapper)
      hits == {i \in DOMAIN rects : Contains(rects[i], pos)}
  IN IF ~wrapper.is_selected \/ hits = {}
       THEN NoHandle
       ELSE (CHOOSE i \in hits : \A j \in hits : i <= j) - 1

\* event.position().toPoint() for the pointer at the canvas point `at`:
\* the event carries the point relative to the widget that receives it.
position(wrapper, at) == <<at[1] - wrapper.x, at[2] - wrapper.y>>

\* rect().contains(pos): the pointer is over the wrapper.
Under(wrapper, at) ==
  LET pos == position(wrapper, at)
  IN /\ 0 <= pos[1] /\ pos[1] < wrapper.width
     /\ 0 <= pos[2] /\ pos[2] < wrapper.height

\* The i-th wrapper of the component c: the one _components holds for
\* i = 0, else the i-th of the wrappers left on the canvas.
Wrapper(w, c, i) ==
  IF i = 0 THEN w.components[c] ELSE w.orphans[i].wrapper

\* The same wrapper with new values of its attributes.
SetWrapper(w, c, i, wrapper) ==
  IF i = 0 THEN [w EXCEPT !.components[c] = wrapper]
           ELSE [w EXCEPT !.orphans[i].wrapper = wrapper]

\* ComponentWrapper.mousePressEvent with the left button on a wrapper of
\* c; the `selected` signal reaches CanvasArea._on_component_selected.
mousePressEvent(w, c, i, at, shift) ==
  LET wrapper == Wrapper(w, c, i)
      pos == position(wrapper, at)
      handle == get_handle_at(wrapper, pos)
      w1 == IF handle # NoHandle
              THEN SetWrapper(w, c, i,
                     [wrapper EXCEPT
                        !.resize_handle = handle,
                        !.original_size = <<wrapper.width, wrapper.height>>,
                        !.original_pos = <<wrapper.x, wrapper.y>>])
              ELSE SetWrapper(w, c, i,
                     [wrapper EXCEPT
                        !.drag_start = pos,
                        !.original_pos = <<wrapper.x, wrapper.y>>])
  IN on_component_selected(w1, c, shift)

\* ComponentWrapper.mouseMoveEvent.  In a resize only the bottom-right
\* handle acts, on the wrapper and on the component at once; in a drag the
\* wrapper alone is moved.  A QPoint is false when it is (0, 0).
mouseMoveEvent(w, c, i, at) ==
  LET wrapper == Wrapper(w, c, i)
      pos == position(wrapper, at)
  IN IF wrapper.resize_handle # NoHandle /\ wrapper.original_size # NoPoint
       THEN LET delta ==
                  IF wrapper.drag_start # NoPoint /\ wrapper.drag_start # <<0, 0>>
                    THEN <<pos[1] - wrapper.drag_start[1],
                           pos[2] - wrapper.drag_start[2]>>
                    ELSE pos
                new_width == Max(50, wrapper.original_size[1] + delta[1])
                new_height == Max(30, wrapper.original_size[2] + delta[2])
            IN IF wrapper.resize_handle = 7
                 THEN [SetWrapper(w, c, i,
                         [wrapper EXCEPT !.width = new_width,
                                         !.height = new_height])
                         EXCEPT !.heap[c].width = new_width,
                                !.heap[c].height = new_height]
                 ELSE w
       ELSE IF wrapper.drag_start # NoPoint /\ wrapper.original_pos # NoPoint
         THEN LET new_x == wrapper.original_pos[1] + (pos[1] - wrapper.drag_start[1])
                  new_y == wrapper.original_pos[2] + (pos[2] - wrapper.drag_start[2])
              IN IF w.grid.snap
                   THEN SetWrapper(w, c, i,
                          [wrapper EXCEPT
                             !.x = SnapToGrid(new_x, w.grid.size),
                             !.y = SnapToGrid(new_y, w.grid.size)])
                   ELSE SetWrapper(w, c, i,
                          [wrapper EXCEPT !.x = new_x, !.y = new_y])
         ELSE w

\* ComponentWrapper.mouseReleaseEvent with the left button: the position
\* of a wrapper that has moved is stored on the component; `moved` and
\* `resized` reach handlers that do nothing.
mouseReleaseEvent(w, c, i) ==
  LET wrapper == Wrapper(w, c, i)
      w1 == IF /\ wrapper.original_pos # NoPoint
               /\ \/ wrapper.x # wrapper.original_pos[1]
                  \/ wrapper.y # wrapper.original_pos[2]
              THEN [w EXCEPT !.heap[c].x = wrapper.x, !.heap[c].y = wrapper.y]
              ELSE w
  IN SetWrapper(w1, c, i,
       [wrapper EXCEPT !.drag_start = NoPoint,
                       !.original_pos = NoPoint,
                       !.original_size = NoPoint,
                       !.resize_handle = NoHandle])

\* ------------------------------------------------------ the rubber band

\* QRect(): a rectangle is its left, top, right and bottom pixel, the right
\* and bottom ones being left + width - 1 and top + height - 1; the null
\* rectangle has width and height 0.
QRect == <<0, 0, -1, -1>>

\* QRect(x, y, width, height).
QRectOfSize(x, y, width, height) == <<x, y, x + width - 1, y + height - 1>>

\* QRect(topLeft, bottomRight): both pixels belong to the rectangle.
QRectOfPoints(p, q) == <<p[1], p[2], q[1], q[2]>>

\* QRect.normalized (Qt 6): a rectangle whose right is left of its left is
\* turned round between the two pixels, which are left out; likewise top
\* and bottom.
normalized(r) ==
  <<IF r[3] < r[1] THEN r[3] + 1 ELSE r[1],
    IF r[4] < r[2] THEN r[4] + 1 ELSE r[2],
    IF r[3] < r[1] THEN r[1] - 1 ELSE r[3],
    IF r[4] < r[2] THEN r[2] - 1 ELSE r[4]>>

\* QRect.isNull.
isNull(r) == r[3] = r[1] - 1 /\ r[4] = r[2] - 1

\* QRect.intersects (Qt 6): false for a null rectangle, else the two have
\* a pixel in common; a rectangle whose right is left of its left is read
\* as normalized() turns it, between the two pixels, which are left out.
intersects(a, b) ==
  LET l1 == IF a[3] < a[1] - 1 THEN a[3] + 1 ELSE a[1]
      r1 == IF a[3] < a[1] - 1 THEN a[1] - 1 ELSE a[3]
      l2 == IF b[3] < b[1] - 1 THEN b[3] + 1 ELSE b[1]
      r2 == IF b[3] < b[1] - 1 THEN b[1] - 1 ELSE b[3]
      t1 == IF a[4] < a[2] - 1 THEN a[4] + 1 ELSE a[2]
      b1 == IF a[4] < a[2] - 1 THEN a[2] - 1 ELSE a[4]
      t2 == IF b[4] < b[2] - 1 THEN b[4] + 1 ELSE b[2]
      b2 == IF b[4] < b[2] - 1 THEN b[2] - 1 ELSE b[4]
  IN /\ ~isNull(a) /\ ~isNull(b)
     /\ ~(l1 > r2 \/ l2 > r1)
     /\ ~(t1 > b2 \/ t2 > b1)

\* wrapper.geometry().
geometry(wrapper) ==
  QRectOfSize(wrapper.x, wrapper.y, wrapper.width, wrapper.height)

\* self.childAt(pos) is a wrapper, one that _components holds or one left
\* on the canvas.
childAt(w, at) ==
  \/ \E c \in DOMAIN w.components : Under(w.components[c], at)
  \/ \E i \in DOMAIN w.orphans : Under(w.orphans[i].wrapper, at)

\* CanvasArea.mousePressEvent with the left button.  On empty canvas the
\* selection is cleared, the origin is kept, the QRubberBand is created if
\* there is none and given the geometry QRect(origin, QSize()), whose size
\* is (-1, -1): a widget not yet shown bounds it to (0, 0) (`clamped`); a
\* widget that has been shown may keep it.
canvas_mousePressEvent(w, at, clamped) ==
  IF childAt(w, at)
    THEN w
    ELSE [canvas_clear_selection(w) EXCEPT
            !.rubber_band =
              [created |-> TRUE, origin |-> at,
               geometry |-> IF clamped THEN QRectOfSize(at[1], at[2], 0, 0)
                                       ELSE QRectOfSize(at[1], at[2], -1, -1)]]

\* CanvasArea.mouseMoveEvent.  A QPoint is false when it is (0, 0).
canvas_mouseMoveEvent(w, at) ==
  IF /\ w.rubber_band.created
     /\ w.rubber_band.origin # NoPoint /\ w.rubber_band.origin # <<0, 0>>
    THEN [w EXCEPT !.rubber_band.geometry =
            normalized(QRectOfPoints(w.rubber_band.origin, at))]
    ELSE w

\* "for component_id, wrapper in self._components.items()" of
\* mouseReleaseEvent, the items in the order `order`.
RECURSIVE SelectIntersecting(_, _)
SelectIntersecting(w, order) ==
  IF order = <<>>
    THEN w
    ELSE LET c == Head(order)
             w1 == IF intersects(w.rubber_band.geometry, geometry(w.components[c]))
                     THEN select_component(set_selected(w, c, TRUE), c, TRUE)
                     ELSE w
         IN SelectIntersecting(w1, Tail(order))

\* CanvasArea.mouseReleaseEvent, of any button: once the QRubberBand
\* exists, every wrapper its geometry intersects is selected.
canvas_mouseReleaseEvent(w, order) ==
  IF w.rubber_band.created
    THEN [SelectIntersecting(w, order) EXCEPT !.rubber_band.origin = NoPoint]
    ELSE w

\* The orders the dict self._components can have: the order its keys were
\* inserted in.
Orders(S) ==
  {order \in [1..Cardinality(S) -> S] :
     \A i, j \in 1..Cardinality(S) : i # j => order[i] # order[j]}

\* The components that commands on the stacks hold.
Referenced ==
  {undo_stack[i].component : i \in DOMAIN undo_stack}
    \cup {redo_stack[i].component : i \in DOMAIN redo_stack}

\* ------------------------------------------------------------ the project

\* uuid4(): the n-th value it returns.
uuid4(n) == <<"uuid", n>>

\* None, where a page id is expected.
NoPage == <<"none", 0>>

\* None, where a path is expected.
NoPath == ""

\* The paths a file dialog returns.
Paths == {"a.zeus"}

\* None, where a Project is expected.
NoProject == [none |-> TRUE]

\* Page(id, name, components): the id and the component dicts (each by its
\* "id") are kept.
Page(id, page_components) == [id |-> id, components |-> page_components]

\* Project.__post_init__: a project built without pages gets a "Main Page"
\* whose id is a new uuid.
post_init(p, uuid) ==
  IF p.pages = <<>> THEN [p EXCEPT !.pages = <<Page(uuid, <<>>)>>] ELSE p

\* Project.create_new: Project(name), created at the time t.
create_new(t, uuid) ==
  post_init([pages |-> <<>>, modified_at |-> t, file_path |-> NoPath], uuid)

\* Project.mark_modified at the time t.
mark_modified(p, t) == [p EXCEPT !.modified_at = t]

\* Project.add_page: the page gets the id uuid.
add_page(p, uuid, t) ==
  mark_modified([p EXCEPT !.pages = Append(@, Page(uuid, <<>>))], t)

\* Project.get_page, as the index of the first page with the id (0: None).
PageIndex(p, page_id) ==
  IF \E i \in DOMAIN p.pages : p.pages[i].id = page_id
    THEN CHOOSE i \in DOMAIN p.pages :
           /\ p.pages[i].id = page_id
           /\ \A j \in 1..(i - 1) : p.pages[j].id # page_id
    ELSE 0

\* A remove_page that pops the first page of the project when a page has
\* the id.
RemovePageFirst(p, page_id, t) ==
  IF PageIndex(p, page_id) = 0 THEN p
  ELSE mark_modified([p EXCEPT !.pages = Tail(@)], t)

\* Project.remove_page: the first page with the id is removed.
remove_page(p, page_id, t) ==
  LET i == PageIndex(p, page_id) IN
    IF i = 0 THEN p
    ELSE mark_modified([p EXCEPT !.pages = Pop(@, i)], t)

\* Project.save: write_ok tells whether open() and json.dump succeed.
save(p, file_path, write_ok, t) ==
  LET path == IF file_path # NoPath THEN file_path ELSE p.file_path IN
    IF path = NoPath THEN [project |-> p, raised |-> TRUE]
    ELSE [project |-> mark_modified([p EXCEPT !.file_path = path], t),
          raised |-> ~write_ok]

\* --------------------------------------------------------- documents

\* A JSON value read from a project file.  A value has a type; an object
\* has keys; `pages` is the value under "pages" and `modified_at` the one
\* under "modified_at" (when the key is there).  `items` is what iterating
\* over the value yields: the elements of an array, the keys of an object.
PageValue(type, keys, id, page_components) ==
  [type |-> type, keys |-> keys, id |-> id, components |-> page_components]

PagesValue(type, items) == [type |-> type, items |-> items]

Document(type, keys, pages) ==
  [type |-> type, keys |-> keys, pages |-> pages, modified_at |-> 0]

NoDocument == Document("null", {}, PagesValue("null", <<>>))

GoodPage == PageValue("object", {"id", "name", "components"}, <<"doc", 1>>, <<"c1">>)

GoodPages == PagesValue("array", <<GoodPage>>)

Documents ==
  { Document("object", {"name", "version", "pages", "modified_at"}, GoodPages),
    Document("object", {"name", "version", "pages"}, PagesValue("array", <<>>)),
    Document("array", {}, PagesValue("null", <<>>)),
    Document("object", {"version", "pages"}, GoodPages),
    Document("object", {"name", "pages"}, GoodPages),
    Document("object", {"name", "version"}, PagesValue("null", <<>>)),
    Document("object", {"name", "version", "pages"}, PagesValue("null", <<>>)),
    Document("object", {"name", "version", "pages"}, PagesValue("object", <<>>)),
    Document("object", {"name", "version", "pages"},
             PagesValue("array", <<PageValue("string", {}, NoPage, <<>>)>>)),
    Document("object", {"name", "version", "pages"},
             PagesValue("array", <<PageValue("object", {"name"}, NoPage, <<>>)>>)),
    Document("object", {"name", "version", "pages"},
             PagesValue("array", <<PageValue("object", {"id"}, <<"doc", 1>>, <<>>)>>)) }

\* The pages a document for the validator lists: a string, and objects
\* with and without "id" and "name".
PageChoices ==
  {PageValue("string", {}, NoPage, <<>>)} \cup
  {PageValue("object", keys, IF "id" \in keys THEN <<"doc", 1>> ELSE NoPage, <<>>) :
     keys \in SUBSET {"id", "name"}}

\* The values under "pages": none, an object, and the arrays of up to
\* MaxPages pages.
PagesChoices ==
  {PagesValue("null", <<>>), PagesValue("object", <<>>)} \cup
  {PagesValue("array", items) :
     items \in UNION {[1..n -> PageChoices] : n \in 0..MaxPages}}

\* The documents handed to validate_project: an array, and the objects
\* over the keys "name", "version" and "pages".
ValidatorInputs ==
  {Document("array", {}, PagesValue("null", <<>>))} \cup
  {Document("object", keys, PagesValue("null", <<>>)) :
     keys \in SUBSET {"name", "version"}} \cup
  {Document("object", keys \cup {"pages"}, pages) :
     keys \in SUBSET {"name", "version"}, pages \in PagesChoices}

\* None, where an error message is expected.
NoError == <<>>

\* The page loop of validate_project with the pages before the i-th
\* accepted: the message for the first page that fails a test, with its
\* index counted from 0.
RECURSIVE PagesError(_, _)
PagesError(items, i) ==
  IF i > Len(items) THEN NoError
  ELSE IF items[i].type # "object"
    THEN <<"Page must be a dictionary", i - 1>>
  ELSE IF "id" \notin items[i].keys
    THEN <<"Page must have an id", i - 1>>
  ELSE IF "name" \notin items[i].keys
    THEN <<"Page must have a name", i - 1>>
  ELSE PagesError(items, i + 1)

\* A validate_project that tests "version" before "name".
ValidationErrorVersionFirst(data) ==
  IF data.type # "object" THEN <<"Project must be a dictionary">>
  ELSE IF "version" \notin data.keys THEN <<"Project must have a version">>
  ELSE IF "name" \notin data.keys THEN <<"Project must have a name">>
  ELSE IF "pages" \notin data.keys \/ data.pages.type # "array"
    THEN <<"Project must have a pages array">>
  ELSE PagesError(data.pages.items, 1)

\* The error message validate_project returns, NoError for None.
validation_error(data) ==
  IF data.type # "object" THEN <<"Project must be a dictionary">>
  ELSE IF "name" \notin data.keys THEN <<"Project must have a name">>
  ELSE IF "version" \notin data.keys THEN <<"Project must have a version">>
  ELSE IF "pages" \notin data.keys \/ data.pages.type # "array"
    THEN <<"Project must have a pages array">>
  ELSE PagesError(data.pages.items, 1)

\* validate_project: TRUE when it returns (True, None).
validate_project(data) == validation_error(data) = NoError

\* Page.from_dict raises: data["id"] or data["name"] fails.
PageFromDictRaises(data) ==
  \/ data.type # "object"
  \/ "id" \notin data.keys
  \/ "name" \notin data.keys

\* Page.from_dict.
PageFromDict(data) ==
  Page(data.id, IF "components" \in data.keys THEN data.components ELSE <<>>)

\* Project.from_dict raises: data.get fails on a value that is not an
\* object, the value under "pages" cannot be iterated, or Page.from_dict
\* raises for one of its items.
FromDictRaises(data) ==
  \/ data.type # "object"
  \/ /\ "pages" \in data.keys
     /\ \/ data.pages.type \notin {"array", "object"}
        \/ \E i \in DOMAIN data.pages.items : PageFromDictRaises(data.pages.items[i])

\* Project.from_dict, when it does not raise.
from_dict(data, file_path, t, uuid) ==
  LET items == IF "pages" \in data.keys THEN data.pages.items ELSE <<>> IN
    post_init([pages |-> [i \in DOMAIN items |-> PageFromDict(items[i])],
               modified_at |-> IF "modified_at" \in data.keys
                                 THEN data.modified_at ELSE t,
               file_path |-> file_path], uuid)

\* Page.to_dict.
page_to_dict(page) ==
  PageValue("object", {"id", "name", "components", "width", "height"},
            page.id, page.components)

\* Project.to_dict.
to_dict(p) ==
  [Document("object",
            {"name", "description", "version", "created_at", "modified_at",
             "pages", "assets", "settings"},
            PagesValue("array",
                       [i \in DOMAIN p.pages |-> page_to_dict(p.pages[i])]))
     EXCEPT !.modified_at = p.modified_at]

\* Project.load of a file that holds `data`; read_ok tells whether open()
\* and json.load succeed.
load(data, read_ok, file_path, t, uuid) ==
  IF ~read_ok \/ FromDictRaises(data)
    THEN [project |-> NoProject, raised |-> TRUE]
    ELSE [project |-> from_dict(data, file_path, t, uuid), raised |-> FALSE]

\* The AppState.project setter: the first page of the project becomes the
\* current page (_current_page_id is assigned, not the property).
FirstPageId(value) ==
  IF value # NoProject /\ value.pages # <<>> THEN value.pages[1].id ELSE NoPage

\* -------------------------------------------------- observation of runs

\* What the inverse law compares: the fields of every component and the
\* set of components on the canvas.
Snapshot(w) == [heap |-> w.heap, on_canvas |-> DOMAIN w.components]

NoComponent ==
  [x |-> 0, y |-> 0, width |-> 0, height |-> 0, properties |-> DefaultProperties]

NoSnapshot == [heap |-> [c \in Ids |-> NoComponent], on_canvas |-> {}]

\* No run in progress.
LawIdle ==
  [phase |-> "idle", run |-> <<>>, k |-> 0, pre |-> NoSnapshot, post |-> NoSnapshot]

\* `law` follows a run of n recorded executes (run holds the ids of their
\* commands, pre the snapshot before the first), then up to n undos (k
\* counts them, post is the snapshot before the first), then up to n redos
\* (k counts them).  Any other call ends the run.
LawAfterExecute(command) ==
  IF law.phase = "exec"
    THEN [law EXCEPT !.run = Append(@, command.id)]
    ELSE [LawIdle EXCEPT !.phase = "exec", !.run = <<command.id>>,
                         !.pre = Snapshot(World)]

LawAfterUndo(ret) ==
  CASE ret = NoCommand -> LawIdle
    [] ret # NoCommand /\ law.phase = "exec" ->
         [law EXCEPT !.phase = "undo", !.k = 1, !.post = Snapshot(World)]
    [] ret # NoCommand /\ law.phase = "undo" /\ law.k < Len(law.run) ->
         [law EXCEPT !.k = @ + 1]
    [] OTHER -> LawIdle

LawAfterRedo(ret) ==
  CASE ret = NoCommand -> LawIdle
    [] ret # NoCommand /\ law.phase = "undo" /\ law.k = Len(law.run) ->
         [law EXCEPT !.phase = "redo", !.k = 1]
    [] ret # NoCommand /\ law.phase = "redo" /\ law.k < Len(law.run) ->
         [law EXCEPT !.k = @ + 1]
    [] OTHER -> LawIdle

NoMark == [phase |-> "none", undo_stack |-> <<>>, redo_stack |-> <<>>]

\* The call just made.
Called(op, command, w) ==
  [op |-> op, command |-> command, ret |-> w.ret, raised |-> w.raised,
   redo_before |-> Len(redo_stack)]

\* The execute that led to w found the guard flag clear and returned
\* without an exception.
Accepted(w) == ~is_executing /\ ~w.raised

\* ----------------------------------------------------------------- actions

Init ==
  /\ heap = [c \in Ids |->
               create_component("button", InitialPosition[1], InitialPosition[2], c)]
  /\ components = <<>>
  /\ selected_ids = <<>>
  /\ undo_stack = <<>>
  /\ redo_stack = <<>>
  /\ is_executing = FALSE
  /\ next_id = 1
  /\ last = [op |-> "init", command |-> NoCommand, ret |-> NoCommand,
             raised |-> FALSE, redo_before |-> 0]
  /\ law = LawIdle
  /\ mark = NoMark
  /\ project = NoProject
  /\ current_page_id = NoPage
  /\ now = 0
  /\ next_uuid = 1
  /\ document = NoDocument
  /\ tree = <<>>
  /\ grid = [size |-> grid_size, snap |-> TRUE]
  /\ listeners = <<>>
  /\ notified = <<>>
  /\ delivered = <<>>
  /\ pointer = [down |-> FALSE, component |-> "", orphan |-> 0,
                press |-> <<0, 0>>, at |-> <<0, 0>>, original |-> <<0, 0>>,
                moves |-> 0, handle |-> NoHandle, gestures |-> 0]
  /\ rubber_band = [created |-> FALSE, origin |-> NoPoint, geometry |-> QRect]
  /\ current_component = NoComponentSet
  /\ orphans = <<>>

\* A caller hands `command` to CommandStack.execute.
Execute(command) ==
  LET w == StackExecute(World, command) IN
    /\ Len(w.orphans) <= MaxOrphans
    /\ SetWorld(w)
    /\ last' = Called("execute", command, w)
    /\ law' = IF Accepted(w) THEN LawAfterExecute(command) ELSE LawIdle
    /\ mark' = NoMark
    /\ UNCHANGED docvars

\* The commands a caller constructs in the current state, each capturing
\* the component's current values as its old values.
MoveCommands(id) ==
  {MoveComponentCommand(id, c, heap[c].x, heap[c].y, p[1], p[2]) :
     c \in Ids, p \in NewPositions}

ResizeCommands(id) ==
  {ResizeComponentCommand(id, c, heap[c].width, heap[c].height, s[1], s[2]) :
     c \in Ids, s \in NewSizes}

ChangePropertyCommands(id) ==
  UNION {{ChangePropertyCommand(id, c, n, get_property(heap[c], n), v) :
            v \in NewValues[n]} : c \in Ids, n \in PropertyNames}

ConcreteCommands(id) ==
  {AddComponentCommand(id, c) : c \in Ids}
    \cup {RemoveComponentCommand(id, c) : c \in Ids}
    \cup MoveCommands(id) \cup ResizeCommands(id) \cup ChangePropertyCommands(id)

ExecuteAdd ==
  /\ next_id <= MaxCommands
  /\ \E c \in Ids : Execute(AddComponentCommand(next_id, c))
  /\ next_id' = next_id + 1

ExecuteRemove ==
  /\ next_id <= MaxCommands
  /\ \E c \in Ids : Execute(RemoveComponentCommand(next_id, c))
  /\ next_id' = next_id + 1

ExecuteMove ==
  /\ next_id <= MaxCommands
  /\ \E command \in MoveCommands(next_id) : Execute(command)
  /\ next_id' = next_id + 1

ExecuteResize ==
  /\ next_id <= MaxCommands
  /\ \E command \in ResizeCommands(next_id) : Execute(command)
  /\ next_id' = next_id + 1

ExecuteChangeProperty ==
  /\ next_id <= MaxCommands
  /\ \E command \in ChangePropertyCommands(next_id) : Execute(command)
  /\ next_id' = next_id + 1

\* A command whose execute() calls CommandStack.execute(inner).
ExecuteNested ==
  /\ next_id + 1 <= MaxCommands
  /\ \E inner \in ConcreteCommands(next_id) \cup {FailingCommand(next_id)} :
       Execute(NestedCommand(next_id + 1, inner))
  /\ next_id' = next_id + 2

\* A command whose execute() raises.
ExecuteFailing ==
  /\ next_id <= MaxCommands
  /\ Execute(FailingCommand(next_id))
  /\ next_id' = next_id + 1

\* A command whose undo() or redo() raises.
ExecuteFailingReverse ==
  /\ next_id <= MaxCommands
  /\ \E command \in {FailingUndoCommand(next_id), FailingRedoCommand(next_id)} :
       Execute(command)
  /\ next_id' = next_id + 1

Undo ==
  LET w == StackUndo(World) IN
    /\ Len(w.orphans) <= MaxOrphans
    /\ SetWorld(w)
    /\ last' = Called("undo", NoCommand, w)
    /\ law' = LawAfterUndo(w.ret)
    /\ mark' = IF w.ret # NoCommand
                 THEN [phase |-> "undone", undo_stack |-> undo_stack,
                       redo_stack |-> redo_stack]
                 ELSE NoMark
    /\ UNCHANGED next_id
    /\ UNCHANGED docvars

Redo ==
  LET w == StackRedo(World) IN
    /\ Len(w.orphans) <= MaxOrphans
    /\ SetWorld(w)
    /\ last' = Called("redo", NoCommand, w)
    /\ law' = LawAfterRedo(w.ret)
    /\ mark' = IF w.ret # NoCommand /\ mark.phase = "undone"
                 THEN [mark EXCEPT !.phase = "redone"]
                 ELSE NoMark
    /\ UNCHANGED next_id
    /\ UNCHANGED docvars

Clear ==
  LET w == StackClear(World) IN
    /\ SetWorld(w)
    /\ last' = Called("clear", NoCommand, w)
    /\ law' = LawIdle
    /\ mark' = NoMark
    /\ UNCHANGED next_id
    /\ UNCHANGED docvars

\* The event loop reaches the DeferredDelete events: it has wrappers to
\* destroy.
DeferredDelete ==
  LET w == deferred_delete(World) IN
    /\ \E i \in DOMAIN orphans : orphans[i].deleteLater
    /\ SetWorld(w)
    /\ last' = Called("deferred_delete", NoCommand, w)
    /\ UNCHANGED <<law, mark, next_id>>
    /\ UNCHANGED docvars

\* The command stack driven with the five command classes.
NextHistory ==
  \/ ExecuteAdd
  \/ ExecuteRemove
  \/ ExecuteMove
  \/ ExecuteResize
  \/ ExecuteChangeProperty
  \/ Undo
  \/ Redo
  \/ Clear
  \/ DeferredDelete

SpecHistory == Init /\ [][NextHistory]_vars

\* The command stack driven with commands that call back into it or raise.
NextGuard ==
  \/ ExecuteMove
  \/ ExecuteNested
  \/ ExecuteFailing
  \/ Undo
  \/ Redo

SpecGuard == Init /\ [][NextGuard]_vars

\* The command stack driven with commands whose reverse or re-apply logic
\* raises.
NextReverse ==
  \/ ExecuteMove
  \/ ExecuteFailingReverse
  \/ Undo
  \/ Redo

SpecReverse == Init /\ [][NextReverse]_vars

\* ------------------------------------------------------ canvas actions

\* A call that is not a call of the command stack and does not touch the
\* project.
Other(op, w) ==
  /\ SetWorld(w)
  /\ last' = Called(op, NoCommand, w)
  /\ law' = LawIdle
  /\ mark' = NoMark
  /\ UNCHANGED docvars

\* A call that takes `argument` and is not a call of the command stack,
\* and does not touch the project.
Input(op, argument, w) ==
  /\ SetWorld(w)
  /\ last' = [op |-> op, command |-> NoCommand, ret |-> w.ret,
              raised |-> w.raised, redo_before |-> Len(redo_stack),
              argument |-> argument]
  /\ law' = LawIdle
  /\ mark' = NoMark
  /\ UNCHANGED docvars

\* Escape: CanvasArea.clear_selection.
ClearSelection ==
  /\ Other("clear_selection", canvas_clear_selection(World))
  /\ UNCHANGED next_id

\* Delete or Backspace: CanvasArea.delete_selected.
DeleteSelected ==
  /\ Len(delete_selected(World).orphans) <= MaxOrphans
  /\ Other("delete_selected", delete_selected(World))
  /\ UNCHANGED next_id

\* A caller of AppState.select_component, with the id of any component
\* object, on the canvas or not.
SelectComponent ==
  /\ \E c \in Ids, add \in BOOLEAN :
       Other("select_component", select_component(World, c, add))
  /\ UNCHANGED next_id

\* ------------------------------------------- SelectionState, called directly

\* AppState.selection.select(id).
SelectionSelect ==
  /\ \E c \in Ids : Other("select", select(World, c))
  /\ UNCHANGED next_id

\* AppState.selection.add_to_selection(id).
SelectionAdd ==
  /\ \E c \in Ids : Other("add_to_selection", add_to_selection(World, c))
  /\ UNCHANGED next_id

\* AppState.selection.remove_from_selection(id).
SelectionRemove ==
  /\ \E c \in Ids : Other("remove_from_selection", remove_from_selection(World, c))
  /\ UNCHANGED next_id

\* AppState.selection.clear().
SelectionClear ==
  /\ Other("selection_clear", selection_clear(World))
  /\ UNCHANGED next_id

\* ------------------------------------------------------ pointer gestures

\* The ids that are not new: those of the component objects that the
\* canvas, a wrapper, a command or the panel holds, and those the selection
\* lists.
Known ==
  DOMAIN components \cup Referenced
    \cup {orphans[i].component : i \in DOMAIN orphans}
    \cup {selected_ids[i] : i \in DOMAIN selected_ids}
    \cup {current_component, pointer.component}

\* CanvasArea.dropEvent of a variant name from the palette: the position
\* is snapped to the grid when grid snap is on, and the component that
\* create_component returns for the name, unless it is None, is added to
\* the canvas and selected.  The component has a new uuid4 for its id: an
\* id that nothing knows.
Drop ==
  /\ ~pointer.down
  /\ \E c \in Ids \ Known, p \in DropPositions,
        component_type \in ComponentTypes, shift \in BOOLEAN :
       LET pos == IF grid.snap
                    THEN <<SnapToGrid(p[1], grid.size), SnapToGrid(p[2], grid.size)>>
                    ELSE p
           component == create_component(component_type, pos[1], pos[2], c)
           w1 == [World EXCEPT !.heap[c] = component]
           w2 == add_component(w1, c)
       IN Input("drop", component_type,
                IF component = NotCreated
                  THEN World
                  ELSE on_component_selected(w2, c, shift))
  /\ UNCHANGED next_id

\* The canvas points the pointer is pressed at and moved to.
PointerPositions == {<<15, 25>>, <<35, 25>>, <<36, 25>>, <<126, 58>>}

\* The wrappers of c on the canvas, as Wrapper counts them.
WrappersOf(c) ==
  (IF c \in DOMAIN components THEN {0} ELSE {})
    \cup {i \in DOMAIN orphans : orphans[i].component = c}

\* The wrapper that took the press is still there.
Held ==
  /\ pointer.component \in Ids
  /\ pointer.orphan \in WrappersOf(pointer.component)

\* The left button goes down on a wrapper under the pointer: the wrapper
\* takes the press and hands it on (super().mousePressEvent ignores it) to
\* CanvasArea.mousePressEvent, which finds the wrapper under the pointer.
MousePress ==
  /\ ~pointer.down
  /\ pointer.gestures < MaxGestures
  /\ \E c \in Ids, at \in PointerPositions, shift \in BOOLEAN :
       \E i \in WrappersOf(c) :
         /\ Under(Wrapper(World, c, i), at)
         /\ LET w == canvas_mousePressEvent(
                        mousePressEvent(World, c, i, at, shift), at, TRUE) IN
              Input("mouse_press", <<c, at>>,
                    [w EXCEPT !.pointer =
                       [down |-> TRUE, component |-> c, orphan |-> i,
                        press |-> at, at |-> at,
                        original |-> <<heap[c].x, heap[c].y>>, moves |-> 0,
                        handle |-> Wrapper(w, c, i).resize_handle,
                        gestures |-> pointer.gestures + 1]])
  /\ UNCHANGED next_id

\* The pointer moves with the left button down: the wrapper that took the
\* press takes the moves and hands them on to CanvasArea.mouseMoveEvent.
\* Once that wrapper is deleted no widget takes them.
MouseMove ==
  /\ pointer.down
  /\ pointer.moves < MaxMoves
  /\ pointer.component # ""
  /\ \E at \in PointerPositions \ {pointer.at} :
       Input("mouse_move", <<pointer.component, at>>,
             [(IF Held
                 THEN canvas_mouseMoveEvent(
                        mouseMoveEvent(World, pointer.component,
                                       pointer.orphan, at), at)
                 ELSE World) EXCEPT
                !.pointer.at = at, !.pointer.moves = @ + 1])
  /\ UNCHANGED next_id

\* The left button goes up: the wrapper that took the press takes the
\* release and hands it on (super().mouseReleaseEvent ignores it), so
\* CanvasArea.mouseReleaseEvent runs next.  Once that wrapper is deleted
\* no widget takes the release.
MouseRelease ==
  /\ pointer.down
  /\ pointer.component # ""
  /\ \E order \in Orders(DOMAIN components) :
       Input("mouse_release", <<pointer.component, pointer.at>>,
             [(IF Held
                 THEN canvas_mouseReleaseEvent(
                        mouseReleaseEvent(World, pointer.component,
                                          pointer.orphan), order)
                 ELSE World) EXCEPT
                !.pointer.down = FALSE])
  /\ UNCHANGED next_id

\* MainWindow._toggle_snap, from the menu.
SetGridSnap ==
  /\ ~pointer.down
  /\ \E value \in BOOLEAN : Input("set_grid_snap", value, set_grid_snap(World, value))
  /\ UNCHANGED next_id

\* The pointer on the wrappers of dropped components.
NextGesture ==
  \/ Drop
  \/ MousePress
  \/ MouseMove
  \/ MouseRelease
  \/ SetGridSnap

SpecGesture == Init /\ [][NextGesture]_vars

\* The canvas and the selection as the user drives them, with components
\* added and removed by commands.
NextCanvas ==
  \/ MousePress
  \/ MouseRelease
  \/ ClearSelection
  \/ DeleteSelected
  \/ ExecuteAdd
  \/ ExecuteRemove
  \/ DeferredDelete

SpecCanvas == Init /\ [][NextCanvas]_vars

\* The selection made by callers of AppState.select_component, with
\* components added and removed by commands.
NextSelection ==
  \/ SelectComponent
  \/ ClearSelection
  \/ DeleteSelected
  \/ ExecuteAdd
  \/ ExecuteRemove
  \/ Undo
  \/ Redo
  \/ DeferredDelete

SpecSelection == Init /\ [][NextSelection]_vars

\* The selection under every caller it has: a drop, a click on a wrapper,
\* Escape, Delete, AppState.select_component and SelectionState's own
\* methods.
NextSelectionState ==
  \/ Drop
  \/ MousePress
  \/ MouseRelease
  \/ ClearSelection
  \/ DeleteSelected
  \/ SelectComponent
  \/ SelectionSelect
  \/ SelectionAdd
  \/ SelectionRemove
  \/ SelectionClear
  \/ DeferredDelete

SpecSelectionState == Init /\ [][NextSelectionState]_vars

\* The canvas points the pointer is pressed at and moved to in a
\* rubber-band gesture.
CanvasPositions == {<<5, 5>>, <<10, 25>>, <<35, 25>>, <<140, 70>>}

\* The left button goes down on empty canvas.
CanvasPress ==
  /\ ~pointer.down
  /\ pointer.gestures < MaxGestures
  /\ \E at \in CanvasPositions,
        clamped \in IF rubber_band.created THEN BOOLEAN ELSE {TRUE} :
       /\ ~childAt(World, at)
       /\ Input("canvas_press", at,
                [canvas_mousePressEvent(World, at, clamped) EXCEPT
                   !.pointer =
                     [down |-> TRUE, component |-> "", orphan |-> 0,
                      press |-> at, at |-> at, original |-> <<0, 0>>,
                      moves |-> 0, handle |-> NoHandle,
                      gestures |-> pointer.gestures + 1]])
  /\ UNCHANGED next_id

\* The pointer moves with the left button down since a press on empty
\* canvas: the canvas takes the moves.
CanvasMove ==
  /\ pointer.down
  /\ pointer.component = ""
  /\ pointer.moves < MaxMoves
  /\ \E at \in CanvasPositions \ {pointer.at} :
       Input("canvas_move", at,
             [canvas_mouseMoveEvent(World, at) EXCEPT
                !.pointer.at = at, !.pointer.moves = @ + 1])
  /\ UNCHANGED next_id

\* The left button goes up after a press on empty canvas.
CanvasRelease ==
  /\ pointer.down
  /\ pointer.component = ""
  /\ \E order \in Orders(DOMAIN components) :
       Input("canvas_release", pointer.at,
             [canvas_mouseReleaseEvent(World, order) EXCEPT
                !.pointer.down = FALSE])
  /\ UNCHANGED next_id

\* A click of the right button anywhere on the canvas: the press handlers
\* act on the left button only, the release reaches
\* CanvasArea.mouseReleaseEvent.
RightClick ==
  /\ ~pointer.down
  /\ \E at \in CanvasPositions, order \in Orders(DOMAIN components) :
       Input("right_click", at, canvas_mouseReleaseEvent(World, order))
  /\ UNCHANGED next_id

\* Clicks, shift-clicks and rubber-band gestures on the canvas, with
\* Escape and Delete.
NextRubberBand ==
  \/ Drop
  \/ MousePress
  \/ MouseRelease
  \/ CanvasPress
  \/ CanvasMove
  \/ CanvasRelease
  \/ RightClick
  \/ ClearSelection
  \/ DeleteSelected
  \/ DeferredDelete

SpecRubberBand == Init /\ [][NextRubberBand]_vars

\* The values a spin box of the panel hands over: its range is
\* -10000..10000.
SpinBoxValues == {0, 75}

\* The panel is built: its callback is among the listeners of
\* "selection_changed".
PanelBuilt ==
  /\ "selection_changed" \in DOMAIN listeners
  /\ \E i \in DOMAIN listeners["selection_changed"] :
       listeners["selection_changed"][i] = "panel"

\* PropertiesPanel(): the panel starts without a component and subscribes
\* _on_selection_changed to "selection_changed".
CreatePanel ==
  /\ ~PanelBuilt
  /\ Other("create_panel",
           subscribe(set_component(World, NoComponentSet),
                     "selection_changed", "panel"))
  /\ UNCHANGED next_id

\* A caller of PropertiesPanel.set_component, with a component of the
\* canvas or None.
SetComponent ==
  /\ PanelBuilt
  /\ \E component \in DOMAIN components \cup {NoComponentSet} :
       Input("set_component", component, set_component(World, component))
  /\ UNCHANGED next_id

\* An editor of the panel's properties tab emits value_changed.
PropertyChanged ==
  /\ PanelBuilt
  /\ \E name \in {"width", "height"}, value \in SpinBoxValues :
       Input("on_property_changed", <<name, value>>,
             on_property_changed(World, name, value))
  /\ UNCHANGED next_id

\* The size of components edited in the panel.
NextPanel ==
  \/ Drop
  \/ CreatePanel
  \/ SetComponent
  \/ PropertyChanged
  \/ ClearSelection

SpecPanel == Init /\ [][NextPanel]_vars

\* ------------------------------------------------- notification actions

\* A caller of AppState.subscribe.
Subscribe ==
  /\ \E event \in Events, callback \in Callbacks :
       /\ event \in DOMAIN listeners => Len(listeners[event]) < MaxSubscriptions
       /\ Input("subscribe", <<event, callback>>,
                subscribe(World, event, callback))
  /\ UNCHANGED next_id

\* A caller of AppState.unsubscribe, outside any dispatch.
Unsubscribe ==
  /\ \E event \in Events, callback \in Callbacks :
       Input("unsubscribe", <<event, callback>>,
             unsubscribe(World, event, callback))
  /\ UNCHANGED next_id

\* The values assigned to AppState.grid_size.
GridSizes == {4, 5, 25, 50, 51}

\* An assignment to AppState.grid_size.
SetGridSize ==
  /\ \E value \in GridSizes :
       Input("set_grid_size", value, set_grid_size(World, value))
  /\ UNCHANGED next_id

\* Subscribers and the calls that notify them.
NextNotify ==
  \/ Subscribe
  \/ Unsubscribe
  \/ SetGridSize
  \/ SelectComponent
  \/ ClearSelection

SpecNotify == Init /\ [][NextNotify]_vars

\* ------------------------------------------------------ pure functions

\* A Python int has no width: it is kept as its sign and the bits of its
\* magnitude, the highest first and <<>> for 0.
RECURSIVE Bits(_)
Bits(n) == IF n = 0 THEN <<>> ELSE Append(Bits(n \div 2), n % 2)

\* The number the bits stand for, where it is small.
RECURSIVE Value(_)
Value(bits) ==
  IF bits = <<>> THEN 0 ELSE 2 * Value(Front(bits)) + Last(bits)

\* n bits that are 0, none for n below 1.
Zeros(n) == [i \in 1..Max(n, 0) |-> 0]

\* The Python int v.
PyInt(v) == [negative |-> v < 0, bits |-> Bits(IF v < 0 THEN -v ELSE v)]

\* The Python int 2^k + d, for 0 <= d < 2^k.
TwoTo(k, d) ==
  [negative |-> FALSE, bits |-> <<1>> \o Zeros(k - Len(Bits(d))) \o Bits(d)]

\* -v.
Negated(v) == [v EXCEPT !.negative = ~@ /\ v.bits # <<>>]

\* The bits without the zeros in front.
Strip(bits) ==
  IF \A i \in DOMAIN bits : bits[i] = 0
    THEN <<>>
    ELSE SubSeq(bits, CHOOSE i \in DOMAIN bits :
                        bits[i] = 1 /\ \A j \in 1..(i - 1) : bits[j] = 0,
                Len(bits))

\* The bits of the number plus one: the last 0 becomes 1 and the bits
\* after it 0.
Increment(bits) ==
  IF \A i \in DOMAIN bits : bits[i] = 1
    THEN <<1>> \o Zeros(Len(bits))
    ELSE LET last0 == CHOOSE i \in DOMAIN bits :
                        bits[i] = 0 /\ \A j \in (i + 1)..Len(bits) : bits[j] = 1
         IN [i \in DOMAIN bits |->
               IF i < last0 THEN bits[i] ELSE IF i = last0 THEN 1 ELSE 0]

\* Long division by g, the high bits first: the bits of the quotient, one
\* for each bit of the dividend, and the remainder.
RECURSIVE Divide(_, _, _)
Divide(bits, g, remainder) ==
  IF bits = <<>>
    THEN [quotient |-> <<>>, remainder |-> remainder]
    ELSE IF Len(bits) = 1
      THEN [quotient |-> <<(2 * remainder + bits[1]) \div g>>,
            remainder |-> (2 * remainder + bits[1]) % g]
      ELSE LET half == Len(bits) \div 2
               high == Divide(SubSeq(bits, 1, half), g, remainder)
           IN \* the high half is divided before the low half is begun
              IF high.remainder < g
                THEN LET low == Divide(SubSeq(bits, half + 1, Len(bits)), g,
                                       high.remainder)
                     IN [quotient |-> high.quotient \o low.quotient,
                         remainder |-> low.remainder]
                ELSE high

\* The number times g plus carry, the low bits first: as many bits as the
\* number has, and the carry out of them.
RECURSIVE Times(_, _, _)
Times(bits, g, carry) ==
  IF bits = <<>>
    THEN [bits |-> <<>>, carry |-> carry]
    ELSE IF Len(bits) = 1
      THEN [bits |-> <<(bits[1] * g + carry) % 2>>,
            carry |-> (bits[1] * g + carry) \div 2]
      ELSE LET half == Len(bits) \div 2
               low == Times(SubSeq(bits, half + 1, Len(bits)), g, carry)
           IN \* the low half is multiplied before the high half is begun
              IF low.carry >= 0
                THEN LET high == Times(SubSeq(bits, 1, half), g, low.carry)
                     IN [bits |-> high.bits \o low.bits, carry |-> high.carry]
                ELSE low

\* value / grid_size of two ints (int.__truediv__): the float nearest to
\* the quotient, that is the quotient cut to 53 significant bits, a half
\* of the last bit going to the even neighbour.  A float is a mantissa and
\* the power of two its last bit weighs.
truediv(value, g) ==
  IF value.bits = <<>>
    THEN [negative |-> FALSE, mantissa |-> <<>>, exponent |-> 0]
    ELSE LET d == Divide(value.bits \o Zeros(54 + Len(Bits(g))), g, 0)
             q == d.quotient
             first == CHOOSE i \in DOMAIN q :
                        q[i] = 1 /\ \A j \in 1..(i - 1) : q[j] = 0
             kept == SubSeq(q, first, first + 52)
             sticky == \/ d.remainder # 0
                       \/ \E i \in (first + 54)..Len(q) : q[i] = 1
             up == q[first + 53] = 1 /\ (sticky \/ kept[53] = 1)
         IN [negative |-> value.negative,
             mantissa |-> IF up THEN Increment(kept) ELSE kept,
             exponent |-> Len(value.bits) - (first + 52)]

\* round(f) of a float: the nearest int, a half going to the even one.
round(f) ==
  IF f.exponent >= 0
    THEN [negative |-> f.negative, bits |-> f.mantissa \o Zeros(f.exponent)]
    ELSE LET k == -f.exponent
             padded == Zeros(k + 1 - Len(f.mantissa)) \o f.mantissa
             whole == SubSeq(padded, 1, Len(padded) - k)
             up == /\ padded[Len(padded) - k + 1] = 1
                   /\ \/ \E i \in (Len(padded) - k + 2)..Len(padded) :
                           padded[i] = 1
                      \/ Last(whole) = 1
             bits == Strip(IF up THEN Increment(whole) ELSE whole)
         IN [negative |-> f.negative /\ bits # <<>>, bits |-> bits]

\* n * g of two ints.
mul(n, g) ==
  LET product == Times(n.bits, g, 0)
  IN [negative |-> n.negative,
      bits |-> Strip(Bits(product.carry) \o product.bits)]

\* A snap_to_grid that rounds down: (value // grid_size) * grid_size.
SnapToGridFloor(value, size) ==
  LET d == Divide(value.bits, size, 0)
      q == Strip(d.quotient)
  IN mul([negative |-> value.negative,
          bits |-> IF value.negative /\ d.remainder # 0
                     THEN Increment(q) ELSE q], size)

\* snap_to_grid: round(value / grid_size) * grid_size.
snap_to_grid(value, size) == mul(round(truediv(value, size)), size)

\* The grid sizes AppState.grid_size can hold.
SnapGridSizes == 5..50

\* Coordinates beyond MaxCoordinate: the ends of the range of a C int, and
\* ints that a float cannot hold.
LargeCoordinates ==
  {TwoTo(30, 1073741823), Negated(TwoTo(30, 1073741823)), TwoTo(30, 5),
   TwoTo(53, 1), TwoTo(62, 3), Negated(TwoTo(62, 3))}

\* A caller of snap_to_grid: the function reads nothing but its arguments,
\* so one call from the initial state stands for a call from any state.
Snap ==
  /\ last.op = "init"
  /\ \E value \in {PyInt(v) : v \in (-MaxCoordinate)..MaxCoordinate}
                    \cup LargeCoordinates,
        size \in SnapGridSizes :
       Input("snap_to_grid", <<value, size>>,
             [World EXCEPT !.ret = snap_to_grid(value, size)])
  /\ UNCHANGED next_id

\* snap_to_grid on the coordinates and the grid sizes.
NextSnap == Snap

SpecSnap == Init /\ [][NextSnap]_vars

\* A rects_intersect that counts a shared edge as an intersection.
RectsIntersectClosed(r1_x, r1_y, r1_w, r1_h, r2_x, r2_y, r2_w, r2_h) ==
  /\ r1_x <= r2_x + r2_w /\ r1_x + r1_w >= r2_x
  /\ r1_y <= r2_y + r2_h /\ r1_y + r1_h >= r2_y

\* rects_intersect.
rects_intersect(r1_x, r1_y, r1_w, r1_h, r2_x, r2_y, r2_w, r2_h) ==
  /\ r1_x < r2_x + r2_w /\ r1_x + r1_w > r2_x
  /\ r1_y < r2_y + r2_h /\ r1_y + r1_h > r2_y

\* The rectangles handed to rects_intersect: <<x, y, w, h>>.
Rects ==
  {<<x, y, w, h>> : x \in {0, 5, 10, 20}, y \in {0, 5, 10, 20},
                    w \in {5, 10}, h \in {5, 10}}

\* A caller of rects_intersect: the function reads nothing but its
\* arguments, so one call from the initial state stands for a call from any
\* state.
Intersect ==
  /\ last.op = "init"
  /\ \E A \in Rects, B \in Rects :
       Input("rects_intersect", <<A, B>>,
             [World EXCEPT !.ret =
                rects_intersect(A[1], A[2], A[3], A[4], B[1], B[2], B[3], B[4])])
  /\ UNCHANGED next_id

\* rects_intersect on pairs of rectangles.
NextRects == Intersect

SpecRects == Init /\ [][NextRects]_vars

\* The dicts handed to ButtonComponent.from_dict: those with every key of
\* to_dict, and those with one key left out.
FullFragments ==
  {[id |-> "c1", type |-> "button", x |-> x, y |-> 20, width |-> 120,
    height |-> 40, parent_id |-> parent_id, children |-> children,
    properties |-> properties] :
     x \in {0, 10}, parent_id \in {NoParent, "c2"},
     children \in {<<>>, <<"c2">>},
     properties \in {DefaultProperties,
                     [text |-> "Submit", variant |-> "primary"],
                     [text |-> "Submit", variant |-> "primary", border_width |-> 2],
                     [border_width |-> 2]}}

Fragments ==
  FullFragments \cup
  {[k \in DOMAIN data \ {key} |-> data[k]] :
     data \in FullFragments, key \in {"id", "x", "width", "parent_id",
                                       "children", "properties"}}

\* A caller of ButtonComponent.from_dict: the return value is the
\* component.
Deserialize ==
  /\ \E data \in Fragments :
       Input("from_dict", data,
             [World EXCEPT !.ret = component_from_dict(data, "c0")])
  /\ UNCHANGED next_id

\* The names and values handed to BaseComponent.set_property: a declared
\* property, and a style of the Styles tab that a Button does not declare.
StyleNames == {"text", "border_width"}

StyleValues == [text |-> "Submit", border_width |-> 2]

\* An editor of the panel's properties tab emits value_changed with the
\* name "text", or one of its Styles tab emits style_changed with
\* "border_width": _on_property_changed and _on_style_changed call
\* BaseComponent.set_property on the panel's component, if it has one.
SetProperty ==
  /\ PanelBuilt
  /\ \E name \in StyleNames :
       Input("set_property", <<current_component, name>>,
             IF name = "border_width"
               THEN on_style_changed(World, name, StyleValues[name])
               ELSE on_property_changed(World, name, StyleValues[name]))
  /\ UNCHANGED next_id

\* A caller of create_component: the return value is what it returns.
CreateComponent ==
  /\ \E component_type \in ComponentTypes, p \in DropPositions :
       Input("create_component", component_type,
             [World EXCEPT !.ret =
                create_component(component_type, p[1], p[2], "c0")])
  /\ UNCHANGED next_id

\* Components made, changed and read from dicts.
NextComponent ==
  \/ CreateComponent
  \/ Drop
  \/ CreatePanel
  \/ SetComponent
  \/ SetProperty
  \/ Deserialize

SpecComponent == Init /\ [][NextComponent]_vars

\* A caller of validate_project: the return value is the pair of the
\* verdict and the message.
Validate ==
  /\ \E data \in ValidatorInputs :
       Input("validate_project", data,
             [World EXCEPT !.ret = <<validate_project(data), validation_error(data)>>])
  /\ UNCHANGED next_id

\* The validator on the documents a file can hold.
NextValidate == Validate

SpecValidate == Init /\ [][NextValidate]_vars

\* ------------------------------------------------------- project actions

\* A call on the project or the application state: the world becomes w,
\* the project p, the current page page_id; `used` uuids were drawn and
\* `data` is the document a load read.
ExplorerStep(op, raised, w, p, page_id, used, data, items) ==
  /\ SetWorld(w)
  /\ last' = [Called(op, NoCommand, w) EXCEPT !.raised = raised]
  /\ law' = LawIdle
  /\ mark' = NoMark
  /\ project' = p
  /\ current_page_id' = page_id
  /\ next_uuid' = next_uuid + used
  /\ document' = data
  /\ tree' = items
  /\ UNCHANGED <<now, next_id>>

\* The same for a call that leaves the explorer's tree alone.
ProjectStep(op, raised, w, p, page_id, used, data) ==
  ExplorerStep(op, raised, w, p, page_id, used, data, tree)

\* ProjectExplorer.refresh: the tree is cleared and, if there is a
\* project, gets an item for each of its pages, holding the page's id.
refresh(p) ==
  IF p = NoProject THEN <<>> ELSE [i \in DOMAIN p.pages |-> p.pages[i].id]

\* Time passes: no call is made.
Tick ==
  /\ now < MaxTime
  /\ now' = now + 1
  /\ UNCHANGED <<heap, components, selected_ids, undo_stack, redo_stack,
                 is_executing, next_id, last, law, mark, project,
                 current_page_id, next_uuid, document, grid, listeners,
                 notified, delivered, pointer, rubber_band,
                 current_component, orphans, tree>>

\* AppState.reset: the project and the current page are dropped through
\* the fields, not the setters, so nothing is notified; the selection and
\* both stacks of the command stack are emptied.
reset(w) == StackClear(selection_clear(w))

Reset ==
  ProjectStep("reset", FALSE, reset(World), NoProject, NoPage, 0, document)

\* MainWindow._new_project: the project setter, then
\* project_explorer.refresh().
NewProject ==
  /\ next_uuid <= MaxUuids
  /\ LET p == create_new(now, uuid4(next_uuid)) IN
       ExplorerStep("new_project", FALSE, set_project(World, p), p,
                    FirstPageId(p), 1, NoDocument, refresh(p))

\* MainWindow._open_project with a file chosen: Project.load, and the
\* project setter and project_explorer.refresh() when it returns; an
\* exception is shown in a message box.
OpenProject ==
  /\ next_uuid <= MaxUuids
  /\ \E data \in Documents, read_ok \in BOOLEAN, file_path \in Paths :
       LET r == load(data, read_ok, file_path, now, uuid4(next_uuid)) IN
         IF r.raised
           THEN ProjectStep("open_project", TRUE, World, project,
                            current_page_id, 0, data)
           ELSE ExplorerStep("open_project", FALSE,
                             set_project(World, r.project), r.project,
                             FirstPageId(r.project),
                             IF "pages" \in data.keys /\ data.pages.items # <<>>
                               THEN 0 ELSE 1,
                             data, refresh(r.project))

\* Project.save(file_path) on the live project.
ProjectSave ==
  /\ project # NoProject
  /\ \E file_path \in Paths \cup {NoPath}, write_ok \in BOOLEAN :
       LET r == save(project, file_path, write_ok, now) IN
         ProjectStep("save", r.raised, World, r.project, current_page_id, 0,
                     NoDocument)

\* MainWindow._save_project: save() when a path is bound, else
\* _save_project_as with the path the dialog returns (NoPath: cancelled);
\* an exception is shown in a message box.
SaveProject ==
  /\ project # NoProject
  /\ \E chosen \in Paths \cup {NoPath}, write_ok \in BOOLEAN :
       IF project.file_path = NoPath /\ chosen = NoPath
         THEN ProjectStep("save_cancelled", FALSE, World, project,
                          current_page_id, 0, NoDocument)
         ELSE LET r == save(project,
                            IF project.file_path = NoPath THEN chosen ELSE NoPath,
                            write_ok, now)
              IN ProjectStep("save_project", r.raised, World, r.project,
                             current_page_id, 0, NoDocument)

\* ProjectExplorer._add_page: with a project, the new page becomes the
\* current page and the tree is refreshed; without one nothing is done.
AddPage ==
  IF project # NoProject
    THEN /\ next_uuid <= MaxUuids
         /\ LET p == add_page(project, uuid4(next_uuid), now) IN
              ExplorerStep("add_page", FALSE,
                           set_current_page_id(World, uuid4(next_uuid)),
                           p, uuid4(next_uuid), 1, NoDocument, refresh(p))
    ELSE ProjectStep("add_page", FALSE, World, project, current_page_id, 0,
                     NoDocument)

\* The page ids a caller can name: those of the project and one of no page.
PageIds == {project.pages[i].id : i \in DOMAIN project.pages} \cup {<<"doc", 0>>}

\* ProjectExplorer._delete_page from the context menu of an item of the
\* tree, with the page id the item holds: with a project of more than one
\* page, remove_page, the first page made current if the current page has
\* that id, and the tree refreshed; else nothing is done.
DeletePage ==
  \E i \in DOMAIN tree :
    LET page_id == tree[i] IN
      IF project # NoProject /\ Len(project.pages) > 1
        THEN LET p == remove_page(project, page_id, now) IN
               IF current_page_id = page_id
                 THEN ExplorerStep("delete_page", FALSE,
                                   set_current_page_id(World, p.pages[1].id),
                                   p, p.pages[1].id,
                                   0, NoDocument, refresh(p))
                 ELSE ExplorerStep("delete_page", FALSE, World, p,
                                   current_page_id, 0, NoDocument, refresh(p))
        ELSE ProjectStep("delete_page", FALSE, World, project,
                         current_page_id, 0, NoDocument)

\* Project.remove_page(page_id) on the live project.
RemovePage ==
  /\ project # NoProject
  /\ \E page_id \in PageIds :
       ProjectStep("remove_page", FALSE, World,
                   remove_page(project, page_id, now), current_page_id, 0,
                   NoDocument)

\* ProjectExplorer._on_item_clicked on an item of the tree that holds a
\* page id: the id becomes the current page and the tree is refreshed.
SelectPage ==
  \E i \in DOMAIN tree :
    ExplorerStep("select_page", FALSE,
                 set_current_page_id(World, tree[i]), project, tree[i], 0,
                 NoDocument, refresh(project))

\* The project, its pages and its file.
NextProject ==
  \/ Tick
  \/ NewProject
  \/ OpenProject
  \/ ProjectSave
  \/ SaveProject
  \/ AddPage
  \/ DeletePage
  \/ RemovePage
  \/ SelectPage

SpecProject == Init /\ [][NextProject]_vars

\* The project assigned from the menus and its pages driven from the
\* explorer.
NextExplorer ==
  \/ NewProject
  \/ OpenProject
  \/ AddPage
  \/ SelectPage
  \/ DeletePage

SpecExplorer == Init /\ [][NextExplorer]_vars

\* The selection across the pages of a project.
NextPages ==
  \/ NewProject
  \/ AddPage
  \/ SelectPage
  \/ Drop
  \/ SelectComponent
  \/ ClearSelection
  \/ DeleteSelected
  \/ DeferredDelete

SpecPages == Init /\ [][NextPages]_vars

\* The canvas as the user of the editor drives it: the palette, the
\* pointer and the keyboard.
NextEditor ==
  \/ Drop
  \/ MousePress
  \/ MouseMove
  \/ MouseRelease
  \/ DeleteSelected
  \/ DeferredDelete

SpecEditor == Init /\ [][NextEditor]_vars

\* A document edited through the command stack.
NextDocument ==
  \/ Tick
  \/ NewProject
  \/ Reset
  \/ SelectComponent
  \/ ExecuteAdd
  \/ Undo
  \/ DeferredDelete

SpecDocument == Init /\ [][NextDocument]_vars

Next ==
  \/ NextHistory
  \/ ExecuteNested
  \/ ExecuteFailing
  \/ ExecuteFailingReverse
  \/ ClearSelection
  \/ DeleteSelected
  \/ SelectComponent
  \/ SelectionSelect
  \/ SelectionAdd
  \/ SelectionRemove
  \/ SelectionClear
  \/ Drop
  \/ NextProject
  \/ MousePress
  \/ MouseMove
  \/ MouseRelease
  \/ SetGridSnap
  \/ Subscribe
  \/ Unsubscribe
  \/ SetGridSize
  \/ Validate
  \/ Snap
  \/ Intersect
  \/ CanvasPress
  \/ CanvasMove
  \/ CanvasRelease
  \/ RightClick
  \/ CreatePanel
  \/ SetComponent
  \/ PropertyChanged
  \/ CreateComponent
  \/ SetProperty
  \/ Reset
  \/ Deserialize
  \/ DeferredDelete

Spec == Init /\ [][Next]_vars

\* ------------------------------------------------------------ the claims

\* The ids of the commands on either stack.
StackIds ==
  {undo_stack[i].id : i \in DOMAIN undo_stack}
    \cup {redo_stack[i].id : i \in DOMAIN redo_stack}

\* The last n elements of a sequence, and the ids of a sequence of commands.
Suffix(s, n) == SubSeq(s, Len(s) - n + 1, Len(s))

IdsOf(stack) == [i \in DOMAIN stack |-> stack[i].id]

Min(a, b) == IF a < b THEN a ELSE b

\* The execute just made pushed its command.
LastRecorded ==
  /\ last.op = "execute"
  /\ ~last.raised
  /\ undo_stack # <<>>
  /\ Last(undo_stack).id = last.command.id

\* C1: after n executes (n no larger than the cap), n undos return every
\* component field and the set of components on the canvas to their values
\* before the executes, and n redos then return them to their values after
\* the executes.
C1_InverseLaw ==
  /\ (law.phase = "undo" /\ law.k = Len(law.run) /\ Len(law.run) <= max_size)
       => Snapshot(World) = law.pre
  /\ (law.phase = "redo" /\ law.k = Len(law.run) /\ Len(law.run) <= max_size)
       => Snapshot(World) = law.post

\* C2: an execute that records a command after an undo leaves the redo
\* stack empty, and a redo that follows it returns None and changes nothing.
C2_RedoInvalidation ==
  [][/\ (last'.op = "execute" /\ LastRecorded') => redo_stack' = <<>>
     /\ (LastRecorded /\ last'.op = "redo")
          => /\ last'.ret = NoCommand
             /\ ~last'.raised
             /\ UNCHANGED <<heap, components, selected_ids,
                            undo_stack, redo_stack>>]_vars

C2_Witness ==
  /\ LastRecorded
  /\ last.redo_before > 0
  /\ redo_stack = <<>>

\* C3: the undo stack never holds more than max_size commands; after a run
\* of consecutive executes it ends with the commands of the run, most
\* recent on top, the oldest of a run longer than the cap being evicted;
\* and a command that has left both stacks never comes back to either.
C3_HistoryBound ==
  /\ [](/\ Len(undo_stack) <= max_size
        /\ law.phase = "exec" =>
             LET n == Min(Len(law.run), max_size) IN
               /\ Len(undo_stack) >= n
               /\ Suffix(IdsOf(undo_stack), n) = Suffix(law.run, n)
               /\ \A i \in 1..(Len(law.run) - n) : law.run[i] \notin StackIds)
  /\ [][\A i \in 1..MaxCommands :
          (i < next_id /\ i \notin StackIds) => i \notin StackIds']_vars

C3_Witness ==
  /\ law.phase = "exec"
  /\ Len(law.run) > max_size
  /\ Len(undo_stack) = max_size

\* C4: an execute called while another execute is applying its command
\* returns without error and changes nothing; the command that made the
\* nested call is the only one recorded.
C4_ReentrantExecuteIgnored ==
  /\ [](\A inner \in ConcreteCommands(next_id) \cup {FailingCommand(next_id)} :
          LET w == [World EXCEPT !.is_executing = TRUE]
          IN StackExecute(w, inner) = w)
  /\ [][(last'.op = "execute" /\ last'.command.kind = "Nested")
          => /\ ~last'.raised
             /\ heap' = heap
             /\ components' = components
             /\ selected_ids' = selected_ids
             /\ undo_stack' =
                  Suffix(Append(undo_stack, last'.command),
                         Min(Len(undo_stack) + 1, max_size))
             /\ last'.command.inner_id \notin StackIds'
             /\ is_executing' = FALSE]_vars

C4_Witness ==
  /\ last.op = "execute"
  /\ last.command.kind = "Nested"
  /\ last.command.inner_kind = "Move"
  /\ heap[last.command.component].x # last.command.new_x
  /\ Last(undo_stack) = last.command

\* C5: an execute whose command raises lets the exception through, leaves
\* both stacks as they were and the command on neither, and releases the
\* guard: the next execute of a command that does not raise records it.
C5_FailedExecuteNotRecorded ==
  [][/\ (last'.op = "execute" /\ last'.command.kind = "Failing")
          => last'.raised
     /\ (last'.op = "execute" /\ last'.raised)
          => /\ undo_stack' = undo_stack
             /\ redo_stack' = redo_stack
             /\ last'.command.id \notin StackIds'
             /\ is_executing' = FALSE
     /\ (last.op = "execute" /\ last.raised
           /\ last'.op = "execute" /\ last'.command.kind # "Failing")
          => LastRecorded']_vars

C5_Witness ==
  /\ last.op = "execute"
  /\ last.raised
  /\ undo_stack # <<>>
  /\ redo_stack # <<>>

\* C6: undo moves the top of the undo stack to the top of the redo stack,
\* reverses it and returns it; redo moves the top of the redo stack to the
\* top of the undo stack, applies it again and returns it; an undo
\* immediately followed by a redo leaves both stacks as they were.
C6_UndoRedoTop ==
  /\ [][/\ (last'.op = "undo" /\ undo_stack # <<>>)
             => LET command == undo_stack[Len(undo_stack)] IN
                  /\ undo_stack' = SubSeq(undo_stack, 1, Len(undo_stack) - 1)
                  /\ redo_stack' = Append(redo_stack, command)
                  /\ last'.ret = command
                  /\ Snapshot(World)' = Snapshot(CommandUndo(World, command))
        /\ (last'.op = "redo" /\ redo_stack # <<>>)
             => LET command == redo_stack[Len(redo_stack)] IN
                  /\ redo_stack' = SubSeq(redo_stack, 1, Len(redo_stack) - 1)
                  /\ undo_stack' = Append(undo_stack, command)
                  /\ last'.ret = command
                  /\ Snapshot(World)' = Snapshot(CommandExecute(World, command))
       ]_vars
  /\ [](mark.phase = "redone" =>
          /\ undo_stack = mark.undo_stack
          /\ redo_stack = mark.redo_stack)

C6_Witness ==
  /\ mark.phase = "redone"
  /\ last.op = "redo"
  /\ last.ret = Last(undo_stack)
  /\ redo_stack # <<>>

\* C7: undo on an empty undo stack and redo on an empty redo stack return
\* None and change neither stack, no component and not the canvas.
C7_EmptyStackNoOp ==
  [][((last'.op = "undo" /\ undo_stack = <<>>)
        \/ (last'.op = "redo" /\ redo_stack = <<>>))
       => /\ last'.ret = NoCommand
          /\ ~last'.raised
          /\ UNCHANGED <<heap, components, selected_ids,
                         undo_stack, redo_stack>>]_vars

C7_Witness ==
  \/ /\ last.op = "undo" /\ last.ret = NoCommand
     /\ undo_stack = <<>> /\ redo_stack # <<>>
  \/ /\ last.op = "redo" /\ last.ret = NoCommand
     /\ redo_stack = <<>> /\ undo_stack # <<>>

\* C8: an undo or redo changes only what its command captured: a Move only
\* x and y of its component, a Resize only width and height, a
\* ChangeProperty only the named property, an Add or Remove only the
\* presence of its component on the canvas; and once a Move to (50,60) and
\* then a change of text from "Button" are on the stack, undoing the latter
\* restores "Button" and leaves the component at (50,60).
C8_UndoRedoFrame ==
  /\ [][(last'.op \in {"undo", "redo"} /\ last'.ret # NoCommand)
          => LET command == last'.ret
                 c == command.component
             IN /\ selected_ids' = selected_ids
                /\ \A d \in Ids \ {c} : heap'[d] = heap[d]
                /\ \A d \in Ids \ {c} :
                     /\ (d \in DOMAIN components) = (d \in DOMAIN components')
                     /\ d \in DOMAIN components => components'[d] = components[d]
                /\ command.kind = "Move" =>
                     /\ components' = components
                     /\ heap'[c] = [heap[c] EXCEPT !.x = heap'[c].x,
                                                   !.y = heap'[c].y]
                /\ command.kind = "Resize" =>
                     /\ components' = components
                     /\ heap'[c] = [heap[c] EXCEPT !.width = heap'[c].width,
                                                   !.height = heap'[c].height]
                /\ command.kind = "ChangeProperty" =>
                     /\ components' = components
                     /\ heap'[c] =
                          [heap[c] EXCEPT !.properties[command.property_name] =
                             heap'[c].properties[command.property_name]]
                /\ command.kind \in {"Add", "Remove"} => heap' = heap]_vars
  /\ [](( /\ last.op = "undo"
          /\ last.ret.kind = "ChangeProperty"
          /\ last.ret.property_name = "text"
          /\ last.ret.old_value = "Button"
          /\ undo_stack # <<>>
          /\ Last(undo_stack).kind = "Move"
          /\ Last(undo_stack).component = last.ret.component
          /\ Last(undo_stack).new_x = 50
          /\ Last(undo_stack).new_y = 60)
         => LET c == last.ret.component IN
              /\ get_property(heap[c], "text") = "Button"
              /\ heap[c].x = 50
              /\ heap[c].y = 60)

C8_Witness ==
  /\ last.op = "undo"
  /\ last.ret.kind = "ChangeProperty"
  /\ last.ret.property_name = "text"
  /\ last.ret.new_value = "Submit"
  /\ undo_stack # <<>>
  /\ Last(undo_stack).kind = "Move"
  /\ Last(undo_stack).component = last.ret.component
  /\ heap[last.ret.component].x = 50
  /\ heap[last.ret.component].y = 60
  /\ get_property(heap[last.ret.component], "text") = "Button"

\* C9: whenever a component leaves the canvas's component collection, its
\* id is not in the selection afterwards.
C9_RemovedNotSelected ==
  [][\A c \in Ids :
       (c \in DOMAIN components /\ c \notin DOMAIN components')
         => \A i \in DOMAIN selected_ids' : selected_ids'[i] # c]_vars

\* C10: every selected id is the id of a component of the canvas's
\* component collection, and select_component with an id that is not
\* leaves the selection as it was.
C10_SelectionExists ==
  /\ [](\A i \in DOMAIN selected_ids : selected_ids[i] \in DOMAIN components)
  /\ [][(last'.op = "select_component"
           /\ \E i \in DOMAIN selected_ids' :
                selected_ids'[i] \notin DOMAIN components)
          => selected_ids' = selected_ids]_vars

\* The ids a sequence holds.
Range(s) == {s[i] : i \in DOMAIN s}

\* C11: select(id) leaves the selection equal to the singleton [id],
\* whatever it held before: in every state, for every id, and after every
\* call of SelectionState.select.
C11_SelectSingleton ==
  /\ [](\A c \in Ids : select(World, c).selected_ids = <<c>>)
  /\ [][last'.op = "select" => Len(selected_ids') = 1]_vars

\* A select was made and left one id in the selection.
C11_Witness ==
  /\ last.op = "select"
  /\ selected_ids = <<"c2">>

\* C12: add_to_selection and remove_from_selection are idempotent, the set
\* of ids after two adds does not depend on their order, and the selection
\* never holds an id twice.
C12_SelectionIsASet ==
  /\ \A i, j \in DOMAIN selected_ids : selected_ids[i] = selected_ids[j] => i = j
  /\ \A c \in Ids :
       /\ add_to_selection(add_to_selection(World, c), c)
            = add_to_selection(World, c)
       /\ remove_from_selection(remove_from_selection(World, c), c)
            = remove_from_selection(World, c)
  /\ \A a, b \in Ids :
       Range(add_to_selection(add_to_selection(World, a), b).selected_ids)
         = Range(add_to_selection(add_to_selection(World, b), a).selected_ids)

\* An add made the selection hold two ids.
C12_Witness ==
  /\ last.op = "add_to_selection"
  /\ Len(selected_ids) = 2

\* The calls that save the project.
Saves == {"save", "save_project"}

\* C13: a project always holds at least one page, and remove_page of the
\* only remaining page leaves the page list as it was.
C13_AtLeastOnePage ==
  /\ [](project # NoProject => Len(project.pages) >= 1)
  /\ [][(last'.op = "remove_page" /\ Len(project.pages) = 1)
          => project'.pages = project.pages]_vars

\* C14: a load of a document that validate_project rejects fails, and the
\* project, the current page, the selection and the history stay as they
\* were.
C14_InvalidDocumentRejected ==
  [][(last'.op = "open_project" /\ ~validate_project(document'))
       => /\ last'.raised
          /\ UNCHANGED <<project, current_page_id, selected_ids, undo_stack,
                         redo_stack>>]_vars

\* C15: a save that raises leaves the project as it was before the call.
C15_FailedSaveAtomic ==
  [][(last'.op \in Saves /\ last'.raised) => project' = project]_vars

\* C16: a save that follows a successful save, with no call in between,
\* leaves modified_at as the first save left it.
C16_SaveKeepsModifiedAt ==
  [][(last.op \in Saves /\ ~last.raised
        /\ last'.op \in Saves /\ ~last'.raised)
       => project'.modified_at = project.modified_at]_vars

\* C17: after add_page, a remove_page that removed a page, and a command's
\* execute, undo or redo, the project's modified_at is the time of the
\* call.
C17_MutationMarksModified ==
  [][(/\ now' = now
      /\ project' # NoProject
      /\ \/ last'.op = "add_page"
         \/ last'.op = "remove_page" /\ project'.pages # project.pages
         \/ last'.op = "execute" /\ ~last'.raised
         \/ last'.op \in {"undo", "redo"} /\ last'.ret # NoCommand)
       => project'.modified_at = now']_vars

\* C18: the components of the current page are the components on the
\* canvas.
C18_PageHoldsCanvasComponents ==
  (project # NoProject /\ PageIndex(project, current_page_id) # 0)
    => Range(project.pages[PageIndex(project, current_page_id)].components)
         = DOMAIN components

\* C19: after a project is assigned to AppState.project (a new document or
\* an opened one) the undo stack, the redo stack and the selection are
\* empty.
C19_ProjectChangeResetsHistory ==
  [][(last'.op \in {"new_project", "open_project"} /\ ~last'.raised)
       => /\ undo_stack' = <<>>
          /\ redo_stack' = <<>>
          /\ selected_ids' = <<>>]_vars

\* The release ends a resize that changed the size of the component the
\* pointer went down on.
ResizeCompleted ==
  /\ Held
  /\ LET wrapper == Wrapper(World, pointer.component, pointer.orphan) IN
       /\ wrapper.resize_handle # NoHandle
       /\ wrapper.original_size # NoPoint
       /\ wrapper.original_size
            # <<heap[pointer.component].width, heap[pointer.component].height>>

\* C20: an edit made with the pointer or the keyboard (a drop, a delete,
\* the release of a drag that moved the component, the release of a resize
\* that changed its size) that changes a component or the canvas puts
\* exactly one command on the undo stack.
C20_EditRecordsOneCommand ==
  [][(\/ /\ last'.op \in {"drop", "delete_selected", "mouse_release"}
         /\ \/ heap' # heap
            \/ DOMAIN components' # DOMAIN components
      \/ last'.op = "mouse_release" /\ ResizeCompleted)
       => Len(undo_stack') = Len(undo_stack) + 1]_vars

\* The value a coordinate v is committed as: round(v / g) * g when grid
\* snapping is on, else v.
Snapped(v) == IF grid.snap THEN SnapToGrid(v, grid.size) ELSE v

\* C21: in a drag of a component (a press off the handles, then moves) the
\* moves leave the component's x and y alone; after the release x and y are
\* the position at the press plus the way of the pointer since the press,
\* each snapped when grid snapping is on, and the drag origin, the original
\* position, the original size and the active handle of the wrapper are
\* cleared.
C21_DragCommitsOnRelease ==
  /\ [][(last'.op = "mouse_move" /\ pointer'.handle = NoHandle)
          => /\ heap'[pointer'.component].x = heap[pointer'.component].x
             /\ heap'[pointer'.component].y = heap[pointer'.component].y]_vars
  /\ []((/\ last.op = "mouse_release"
         /\ pointer.handle = NoHandle
         /\ pointer.moves >= 1)
          => LET c == pointer.component IN
               /\ heap[c].x =
                    Snapped(pointer.original[1] + (pointer.at[1] - pointer.press[1]))
               /\ heap[c].y =
                    Snapped(pointer.original[2] + (pointer.at[2] - pointer.press[2]))
               /\ components[c].drag_start = NoPoint
               /\ components[c].original_pos = NoPoint
               /\ components[c].original_size = NoPoint
               /\ components[c].resize_handle = NoHandle)

\* The part of C21 that holds: a drag with one move of the pointer.
C21_OneMove ==
  (/\ last.op = "mouse_release"
   /\ pointer.handle = NoHandle
   /\ pointer.moves = 1)
    => LET c == pointer.component IN
         /\ heap[c].x =
              Snapped(pointer.original[1] + (pointer.at[1] - pointer.press[1]))
         /\ heap[c].y =
              Snapped(pointer.original[2] + (pointer.at[2] - pointer.press[2]))

\* The tests of validate_project on data, in the order the claim lists
\* them: the document is an object, has "name", has "version", has "pages"
\* that is an array, and then for each page in list order that it is an
\* object, has "id", has "name".  Each test comes with the message for its
\* failure.
TopTests(data) ==
  << [fails |-> data.type # "object",
      message |-> <<"Project must be a dictionary">>],
     [fails |-> "name" \notin data.keys,
      message |-> <<"Project must have a name">>],
     [fails |-> "version" \notin data.keys,
      message |-> <<"Project must have a version">>],
     [fails |-> "pages" \notin data.keys \/ data.pages.type # "array",
      message |-> <<"Project must have a pages array">>] >>

PageTests(page, index) ==
  << [fails |-> page.type # "object",
      message |-> <<"Page must be a dictionary", index>>],
     [fails |-> "id" \notin page.keys,
      message |-> <<"Page must have an id", index>>],
     [fails |-> "name" \notin page.keys,
      message |-> <<"Page must have a name", index>>] >>

RECURSIVE AllPageTests(_, _)
AllPageTests(items, i) ==
  IF i > Len(items) THEN <<>>
  ELSE PageTests(items[i], i - 1) \o AllPageTests(items, i + 1)

Tests(data) == TopTests(data) \o AllPageTests(data.pages.items, 1)

\* The least element of a set of numbers.
First(S) == CHOOSE k \in S : \A j \in S : k <= j

\* C22: validate_project returns (True, None) exactly when no test fails,
\* and otherwise (False, message) with the message of the first test that
\* fails; it raises no exception.
C22_ValidateNamesFirstFailure ==
  last.op = "validate_project"
    => LET tests == Tests(last.argument)
           failing == {k \in DOMAIN tests : tests[k].fails}
       IN /\ ~last.raised
          /\ failing = {} => last.ret = <<TRUE, NoError>>
          /\ failing # {} =>
               last.ret = <<FALSE, tests[First(failing)].message>>

\* A document with no "name" and no "version", and one whose first page is
\* good and whose second page has no "name", have been validated.
C22_Witness ==
  /\ last.op = "validate_project"
  /\ last.argument.type = "object"
  /\ last.argument.keys = {"name", "version", "pages"}
  /\ last.argument.pages.type = "array"
  /\ Len(last.argument.pages.items) = 2
  /\ last.argument.pages.items[1].keys = {"id", "name"}
  /\ last.argument.pages.items[2].keys = {"id"}
  /\ last.ret = <<FALSE, <<"Page must have a name", 1>>>>

\* The components of the claims about dicts: the objects of the heap, and
\* the component the last from_dict returned.
Deserialized == IF last.op = "from_dict" THEN {last.ret} ELSE {}

AllComponents == {heap[c] : c \in Ids} \cup Deserialized

\* C23: from_dict of a component's to_dict gives a component with the same
\* id, x, y, width, height, parent_id, children and properties; and a
\* property key of a dict that the Button does not declare is, with its
\* value, in the component from_dict returns and in that component's
\* to_dict.
C23_ComponentRoundTrip ==
  /\ \A component \in AllComponents :
       component_from_dict(component_to_dict(component), "c9") = component
  /\ (last.op = "from_dict" /\ "properties" \in DOMAIN last.argument)
       => \A k \in DOMAIN last.argument.properties :
            /\ k \in DOMAIN last.ret.properties
            /\ last.ret.properties[k] = last.argument.properties[k]
            /\ component_to_dict(last.ret).properties[k] =
                 last.argument.properties[k]

\* A dict with a parent, a child and a property the Button does not
\* declare has been read.
C23_Witness ==
  /\ last.op = "from_dict"
  /\ "properties" \in DOMAIN last.argument
  /\ DOMAIN last.argument.properties = {"border_width"}
  /\ last.ret.parent_id = "c2"
  /\ last.ret.children = <<"c2">>
  /\ last.ret.id = "c1"
  /\ DOMAIN last.ret.properties = {"text", "variant", "border_width"}

\* C25: create_component with a name that is not in the registry raises,
\* and a drop of such a name creates no component, adds none to the canvas
\* and selects none.
C25_UnknownVariantRaises ==
  [][(/\ last'.op \in {"create_component", "drop"}
      /\ last'.argument \notin COMPONENT_REGISTRY)
       => /\ last'.raised
          /\ heap' = heap
          /\ components' = components
          /\ selected_ids' = selected_ids]_vars

\* The part of C25 that holds: after such a call nothing is created, added
\* or selected.
C25_NothingCreated ==
  [][(/\ last'.op \in {"create_component", "drop"}
      /\ last'.argument \notin COMPONENT_REGISTRY)
       => /\ last'.ret \in {NotCreated, NoCommand}
          /\ heap' = heap
          /\ components' = components
          /\ selected_ids' = selected_ids]_vars

\* C26: every key of the properties of every component is a property the
\* Button declares, and a component just created holds exactly the
\* declared properties at their defaults.
C26_PropertiesAreDeclared ==
  /\ \A component \in AllComponents :
       DOMAIN component.properties \subseteq PropertyNames
  /\ (last.op = "create_component" /\ last.ret # NotCreated)
       => last.ret.properties = DefaultProperties

\* The part of C26 that holds: the properties of a component just created.
C26_CreatedWithDefaults ==
  (last.op = "create_component" /\ last.ret # NotCreated)
    => last.ret.properties = DefaultProperties

\* C24: Project.from_dict of a project's to_dict does not raise and gives
\* a project with the same modification time and the same pages in the
\* same order, each with the same id and component records.
C24_ProjectRoundTrip ==
  project # NoProject
    => /\ ~FromDictRaises(to_dict(project))
       /\ LET q == from_dict(to_dict(project), project.file_path, now,
                             uuid4(next_uuid))
          IN /\ q.modified_at = project.modified_at
             /\ q.pages = project.pages

\* The part of C24 that holds: the round trip of a project that has a
\* page.
C24_WithPages ==
  (project # NoProject /\ project.pages # <<>>)
    => /\ ~FromDictRaises(to_dict(project))
       /\ from_dict(to_dict(project), project.file_path, now,
                    uuid4(next_uuid)) = project

\* The callbacks subscribed to an event, in the order of the
\* subscriptions.
Subscribed(event) ==
  IF event \in DOMAIN listeners THEN listeners[event] ELSE <<>>

\* How many times v is in the sequence s.
Count(s, v) == Cardinality({i \in DOMAIN s : s[i] = v})

\* The callbacks of the calls just delivered, in the order of the calls.
Invoked(calls) == [i \in DOMAIN calls |-> calls[i][1]]

\* C27: a call that notifies one event with one value invokes, before it
\* returns, the callbacks that were subscribed to the event, once per
\* subscription and in the order of the subscriptions, each with the event's
\* value, and invokes no other callback.
C27_NotifyInSubscriptionOrder ==
  [][Len(notified') = 1
       => LET event == notified'[1][1]
              data == notified'[1][2]
              subscribed == Subscribed(event)
          IN delivered' =
               [i \in DOMAIN subscribed |-> <<subscribed[i], event, data>>]]_vars

\* The part of C27 that holds: the dispatch to callbacks none of which
\* unsubscribes.
C27_PassiveCallbacks ==
  [][(Len(notified') = 1 /\ Count(Subscribed(notified'[1][1]), "once") = 0)
       => LET event == notified'[1][1]
              data == notified'[1][2]
              subscribed == Subscribed(event)
          IN delivered' =
               [i \in DOMAIN subscribed |-> <<subscribed[i], event, data>>]]_vars

\* C28: when a callback unsubscribes itself during the dispatch of a
\* notification, every other callback that was subscribed to the event
\* when the dispatch began is invoked once per subscription: none is
\* skipped and none is invoked twice.
C28_UnsubscribeDuringDispatch ==
  [][(Len(notified') = 1 /\ Count(Subscribed(notified'[1][1]), "once") > 0)
       => \A callback \in Callbacks \ {"once"} :
            Count(Invoked(delivered'), callback)
              = Count(Subscribed(notified'[1][1]), callback)]_vars

\* C29: a call that changes the selection notifies "selection_changed"
\* with the selection as the call leaves it.
C29_SelectionChangeNotified ==
  [][selected_ids' # selected_ids
       => \E i \in DOMAIN notified' :
            notified'[i] = <<"selection_changed", selected_ids'>>]_vars

\* The part of C29 that holds: select_component, clear_selection,
\* delete_selected and a drop notify the selection they leave.
C29_AppStateCallsNotify ==
  [][(/\ selected_ids' # selected_ids
      /\ last'.op \in {"select_component", "clear_selection",
                       "delete_selected", "drop"})
       => \E i \in DOMAIN notified' :
            notified'[i] = <<"selection_changed", selected_ids'>>]_vars

\* The value max(5, min(50, value)).
Clamped(value) == Max(5, Min(50, value))

\* C30: the stored grid size is always within 5..50; an assignment stores
\* 5 for a value below 5, 50 for a value above 50 and the value itself
\* otherwise, and notifies "grid_size_changed" once, with the stored value.
C30_GridSizeClamped ==
  /\ grid.size >= 5
  /\ grid.size <= 50
  /\ last.op = "set_grid_size"
       => /\ grid.size = Clamped(last.argument)
          /\ notified = << <<"grid_size_changed", grid.size>> >>
          /\ \A i \in DOMAIN delivered : delivered[i][3] = grid.size

\* A value above 50 has been assigned with a callback subscribed, which
\* was handed 50.
C30_Witness ==
  /\ last.op = "set_grid_size"
  /\ last.argument = 51
  /\ grid.size = 50
  /\ delivered # <<>>
  /\ delivered[1] = <<"a", "grid_size_changed", 50>>

\* The distance between two numbers.
Abs(v) == IF v < 0 THEN -v ELSE v

\* a + sign * b + carry for a and b of the same length, the low bits first:
\* as many bits, and the carry (or, below zero, the borrow) out of them.
RECURSIVE Plus(_, _, _, _)
Plus(a, b, sign, carry) ==
  IF a = <<>>
    THEN [bits |-> <<>>, carry |-> carry]
    ELSE IF Len(a) = 1
      THEN LET t == a[1] + sign * b[1] + carry
           IN [bits |-> <<t % 2>>, carry |-> IF t < 0 THEN -1 ELSE t \div 2]
      ELSE LET half == Len(a) \div 2
               low == Plus(SubSeq(a, half + 1, Len(a)),
                           SubSeq(b, half + 1, Len(b)), sign, carry)
           IN \* the low half is added before the high half is begun
              IF low.carry >= -1
                THEN LET high == Plus(SubSeq(a, 1, half), SubSeq(b, 1, half),
                                      sign, low.carry)
                     IN [bits |-> high.bits \o low.bits, carry |-> high.carry]
                ELSE low

\* The bits of |u - v| of two Python ints.
Distance(u, v) ==
  LET n == Max(Len(u.bits), Len(v.bits))
      a == Zeros(n - Len(u.bits)) \o u.bits
      b == Zeros(n - Len(v.bits)) \o v.bits
      less == \E i \in 1..n : a[i] < b[i] /\ \A j \in 1..(i - 1) : a[j] = b[j]
  IN Strip(IF u.negative # v.negative
             THEN LET sum == Plus(a, b, 1, 0) IN Bits(sum.carry) \o sum.bits
           ELSE IF less THEN Plus(b, a, -1, 0).bits
           ELSE Plus(a, b, -1, 0).bits)

\* s is a multiple of g, differs from x by at most g/2, and is its own
\* snap.
SnappedTo(x, g, s) ==
  /\ Divide(s.bits, g, 0).remainder = 0
  /\ LET d == Distance(s, x) IN Len(d) <= Len(Bits(g)) /\ 2 * Value(d) <= g
  /\ snap_to_grid(s, g) = s

C32_RectsIntersect ==
  /\ last.op = "rects_intersect"
       => LET A == last.argument[1]
              B == last.argument[2]
          IN /\ last.ret <=> (/\ A[1] < B[1] + B[3] /\ B[1] < A[1] + A[3]
                              /\ A[2] < B[2] + B[4] /\ B[2] < A[2] + A[4])
             /\ last.ret <=> rects_intersect(B[1], B[2], B[3], B[4],
                                             A[1], A[2], A[3], A[4])
             /\ (\/ A[1] + A[3] = B[1] \/ B[1] + B[3] = A[1]
                 \/ A[2] + A[4] = B[2] \/ B[2] + B[4] = A[2]) => ~last.ret
  /\ ~rects_intersect(0, 0, 10, 10, 20, 20, 5, 5)
  /\ rects_intersect(0, 0, 10, 10, 5, 5, 10, 10)

\* Two rectangles that share an edge have been tested.
C32_Witness ==
  /\ last.op = "rects_intersect"
  /\ last.argument = << <<0, 0, 10, 10>>, <<10, 0, 5, 10>> >>
  /\ last.ret = FALSE

\* C36: an undo or a redo that raises leaves the undo stack and the redo
\* stack as they were before the call.
C36_RaisingReverseKeepsHistory ==
  [][(last'.op \in {"undo", "redo"} /\ last'.raised)
       => (undo_stack' = undo_stack /\ redo_stack' = redo_stack)]_vars

\* The part of C36 the code keeps: an undo whose command's undo() raises,
\* and a redo whose command's redo() raises, let the exception through.
C36_ExceptionReachesCaller ==
  [][/\ (last'.op = "undo" /\ undo_stack # <<>>
           /\ Last(undo_stack).kind = "FailingUndo") => last'.raised
     /\ (last'.op = "redo" /\ redo_stack # <<>>
           /\ Last(redo_stack).kind = "FailingRedo") => last'.raised]_vars

\* A redo has raised.
C36_RedoRaised == last.op = "redo" /\ last.raised

\* The way of the pointer since the press.
PointerDelta == <<pointer.at[1] - pointer.press[1], pointer.at[2] - pointer.press[2]>>

\* A resize gesture is under way and the pointer has moved: the button is
\* down on a handle of a wrapper that is on the canvas.
Resizing ==
  /\ pointer.down
  /\ pointer.handle # NoHandle
  /\ pointer.moves > 0
  /\ pointer.component \in DOMAIN components
  /\ components[pointer.component].original_size # NoPoint

\* C34: a dragged handle changes the dimensions it constrains: a corner
\* handle both, an edge handle one and not the other; a handle on the left
\* keeps the right edge where it was and one on the top keeps the bottom
\* edge; the wrapper that took the press is the only one with an active
\* handle.
C34_EachHandleResizes ==
  (Resizing /\ PointerDelta[1] # 0 /\ PointerDelta[2] # 0)
    => LET c == pointer.component
           o == components[c].original_size
           handle == pointer.handle
       IN /\ handle \in {0, 2, 5, 7}
               => (heap[c].width # o[1] /\ heap[c].height # o[2])
          /\ handle \in {3, 4}
               => (heap[c].width # o[1] /\ heap[c].height = o[2])
          /\ handle \in {1, 6}
               => (heap[c].width = o[1] /\ heap[c].height # o[2])
          /\ handle \in {0, 3, 5}
               => components[c].x + heap[c].width = pointer.original[1] + o[1]
          /\ handle \in {0, 1, 2}
               => components[c].y + heap[c].height = pointer.original[2] + o[2]
          /\ \A d \in DOMAIN components \ {c} :
               components[d].resize_handle = NoHandle

\* The part of C34 the code keeps: one handle is active per gesture, the
\* one found at the press on the wrapper that took it, and the
\* bottom-right handle changes both dimensions.
C34_OneHandlePerGesture ==
  Resizing
    => LET c == pointer.component
           o == components[c].original_size
       IN /\ components[c].resize_handle = pointer.handle
          /\ \A d \in DOMAIN components \ {c} :
               components[d].resize_handle = NoHandle
          /\ pointer.handle = 7
               => (heap[c].width # o[1] /\ heap[c].height # o[2])

\* The top-left handle has been dragged down and to the right.
C34_TopLeftDragged ==
  /\ Resizing
  /\ pointer.handle = 0
  /\ PointerDelta[1] > 0 /\ PointerDelta[2] > 0

\* C40: while the bottom-right handle is dragged the component's size is
\* (max(50, original width + dx), max(30, original height + dy)) for the
\* way (dx, dy) of the pointer since the press, and x and y are those at
\* the press.
C40_BottomRightResizesByDelta ==
  (Resizing /\ pointer.handle = 7)
    => LET c == pointer.component
           o == components[c].original_size
       IN /\ heap[c].width = Max(50, o[1] + PointerDelta[1])
          /\ heap[c].height = Max(30, o[2] + PointerDelta[2])
          /\ heap[c].x = pointer.original[1]
          /\ heap[c].y = pointer.original[2]

\* The part of C40 the code keeps: x and y stay as they were at the press
\* and the size is at least 50 by 30; the size is the original size plus
\* the pointer's position in the wrapper, not its way since the press.
C40_PositionKept ==
  (Resizing /\ pointer.handle = 7)
    => LET c == pointer.component
           o == components[c].original_size
           pos == position([components[c] EXCEPT !.width = o[1], !.height = o[2]],
                           pointer.at)
       IN /\ heap[c].x = pointer.original[1]
          /\ heap[c].y = pointer.original[2]
          /\ heap[c].width = Max(50, o[1] + pos[1])
          /\ heap[c].height = Max(30, o[2] + pos[2])

\* The pointer is back at the press point of a bottom-right handle drag.
C40_ZeroDelta ==
  /\ Resizing
  /\ pointer.handle = 7
  /\ PointerDelta = <<0, 0>>

\* The rectangle spanned by the press point and the release point of the
\* last gesture, as <<x, y, width, height>> with width and height >= 0.
SpannedRect ==
  <<Min(pointer.press[1], pointer.at[1]), Min(pointer.press[2], pointer.at[2]),
    Abs(pointer.at[1] - pointer.press[1]), Abs(pointer.at[2] - pointer.press[2])>>

\* The bounds of the component c intersect the rectangle r, by the open
\* test.
BoundsIntersect(r, c) ==
  rects_intersect(r[1], r[2], r[3], r[4],
                  components[c].x, components[c].y,
                  components[c].width, components[c].height)

\* C35: a rubber-band gesture from p to q leaves selected exactly the
\* components whose bounds intersect the rectangle spanned by p and q by the
\* open test; a component that only touches the rectangle's edge is not
\* selected.
C35_RubberBandSelectsIntersecting ==
  last.op = "canvas_release"
    => Range(selected_ids) = {c \in DOMAIN components : BoundsIntersect(SpannedRect, c)}

\* The part of C35 the code keeps, for a gesture with the pointer moved:
\* every component whose bounds reach more than one pixel into the spanned
\* rectangle is selected, none that is a pixel or more away from it is,
\* and each is selected once.
C35_WithinOnePixel ==
  (last.op = "canvas_release" /\ pointer.moves > 0)
    => LET r == SpannedRect
           inner == <<r[1] + 1, r[2] + 1, r[3] - 2, r[4] - 2>>
           outer == <<r[1] - 1, r[2] - 1, r[3] + 2, r[4] + 2>>
       IN /\ \A c \in DOMAIN components :
               /\ (r[3] > 2 /\ r[4] > 2 /\ BoundsIntersect(inner, c))
                    => c \in Range(selected_ids)
               /\ c \in Range(selected_ids) => BoundsIntersect(outer, c)
          /\ \A i, j \in DOMAIN selected_ids :
               selected_ids[i] = selected_ids[j] => i = j

\* A rubber band has ended with its right edge on the left edge of a
\* component.
C35_TouchingEdge ==
  /\ last.op = "canvas_release"
  /\ \E c \in DOMAIN components :
       SpannedRect[1] + SpannedRect[3] = components[c].x

\* C37: a component's wrapper is shown selected exactly when its id is in
\* AppState.selection.selected_ids.
C37_WrapperShowsSelection ==
  \A c \in DOMAIN components :
    components[c].is_selected <=> c \in Range(selected_ids)

\* The part of C37 the code keeps: a wrapper shown selected has its id in
\* selected_ids.
C37_ShownSelectedIsSelected ==
  \A c \in DOMAIN components :
    components[c].is_selected => c \in Range(selected_ids)

\* A rubber-band gesture has selected a component.
C37_RubberBandSelected ==
  /\ last.op = "canvas_release"
  /\ selected_ids # <<>>

\* C38: a release that reaches the canvas with no rubber-band gesture in
\* progress (the release of a click on a wrapper, or of the right button)
\* leaves the selection unchanged.
C38_ReleaseOutsideGesture ==
  [][last'.op \in {"mouse_release", "right_click"}
       => selected_ids' = selected_ids]_vars

\* The part of C38 the code keeps: until the first rubber-band gesture
\* such a release leaves the selection unchanged.
C38_BeforeFirstRubberBand ==
  [][(last'.op \in {"mouse_release", "right_click"} /\ ~rubber_band.created)
       => selected_ids' = selected_ids]_vars

\* The right button has been released after a rubber-band gesture.
C38_RightClickAfterGesture ==
  /\ last.op = "right_click"
  /\ rubber_band.created

\* C33: every component's width and height are positive.
C33_SizesArePositive ==
  \A c \in Ids : heap[c].width > 0 /\ heap[c].height > 0

\* The part of C33 the code keeps: while the bottom-right handle is
\* dragged the width is at least 50 and the height at least 30.
C33_ResizeKeepsFloor ==
  (Resizing /\ pointer.handle = 7)
    => /\ heap[pointer.component].width >= 50
       /\ heap[pointer.component].height >= 30

\* The panel has set the width of its component.
C33_WidthEdited ==
  /\ last.op = "on_property_changed"
  /\ last.argument[1] = "width"
  /\ current_component # NoComponentSet

\* The ids of the pages of the project p.
PageIdsOf(p) == {p.pages[i].id : i \in DOMAIN p.pages}

\* C39: current_page_id is None while there is no project and else the id
\* of a page of the project; an assigned project makes its first page the
\* current one; deleting the current page makes the first remaining page
\* the current one.
C39_CurrentPageExists ==
  /\ [](IF project = NoProject
          THEN current_page_id = NoPage
          ELSE current_page_id \in PageIdsOf(project))
  /\ [][/\ (last'.op \in {"new_project", "open_project"} /\ ~last'.raised)
             => (project'.pages # <<>> /\ current_page_id' = project'.pages[1].id)
        /\ (/\ last'.op = "delete_page"
            /\ project' # project
            /\ current_page_id \notin PageIdsOf(project'))
             => current_page_id' = project'.pages[1].id]_vars

\* The current page has been deleted in the explorer: the setter of
\* current_page_id has notified the first remaining page.
C39_Witness ==
  /\ last.op = "delete_page"
  /\ notified = << <<"page_changed", project.pages[1].id>> >>
  /\ current_page_id = project.pages[1].id

====
